---------------------------- MODULE Spec2Model ----------------------------
(***************************************************************************)
(* Model of the nanoclaw group scheduler (class GroupQueue,                *)
(* src/src/group-queue.ts lines 1-316) and of the router / cursor state    *)
(* machine that drives it (index.ts, same file lines 318-968).             *)
(*                                                                         *)
(* One action is one handler of the single JavaScript thread: a public     *)
(* call, a promise continuation (the completion of a run) or a timer       *)
(* callback, together with everything it calls synchronously.              *)
(***************************************************************************)
EXTENDS Integers, Sequences, FiniteSets, TLC

(* ------------------------------ bounds -------------------------------- *)

\* Number of group keys the environment of the scheduler specification uses;
\* the fairness specification uses one key more.
NumGroups == 2

\* Failed message-check runs allowed in one behaviour (the fault budget of the
\* environment) in the scheduler specification.
MaxFailures == 1

\* Retry timers that may be pending for one group at the same time.
MaxTimers == 1

\* Messages that arrive in one behaviour of the router specification.
MaxMessages == 2

\* The concurrency ceiling, a configuration value imported from config.js
\* (src/src/group-queue.ts line 5); its value is not fixed by the scheduler.
MAX_CONCURRENT_AGENTS == 1

\* Listener functions that the web front ends may subscribe to the WebChannel.
NumListeners == 2

\* Events the WebChannel emits in one behaviour of the channel specification.
MaxEvents == 2

(* --------------------------- program constants ------------------------ *)

MAX_RETRIES == 5

BASE_RETRY_MS == 5000

(* ------------------------------ domains ------------------------------- *)

GroupKeys == 1..NumGroups

\* Every key a specification may use: the domain of the per-group maps.
AllKeys == 1..(NumGroups + 1)

TaskIds == {"t1", "t2"}

ChatJids == {"c1", "c2"}

ListenerIds == 1..NumListeners

\* JavaScript null / undefined.
NULL == "null"

VARIABLES
    groups,            \* GroupQueue.groups: key -> GroupState
    activeCount,       \* GroupQueue.activeCount
    waitingGroups,     \* GroupQueue.waitingGroups
    shuttingDown,      \* GroupQueue.shuttingDown
    processMessagesFn, \* GroupQueue.processMessagesFn: which callback is wired
    runs,              \* key -> the runForGroup / runTask invocations awaiting their callback
    timers,            \* key -> delays of the pending setTimeout retry callbacks
    lastTimestamp,     \* index.ts lastTimestamp: the global "seen" watermark
    lastAgentTimestampByFolder, \* index.ts: folder -> handed cursor (0 is '')
    db,                \* router_state rows written by saveState
    stored,            \* the messages table, in insertion order
    pollQueue,         \* folders the suspended poll cycle has still to visit
    failures,          \* failed message-check runs so far (fault budget)
    streak,            \* key -> consecutive failed message-check runs (history)
    web,               \* the WebChannel: connected, listeners (a Set, in
                       \* insertion order), and what each listener function
                       \* was called with (history)
    handoffs,          \* folder -> what was handed to its workers, and the
                       \* rollbacks of its cursor, in order (history)
    last               \* the handler executed last (history, for the properties)

vars == <<groups, activeCount, waitingGroups, shuttingDown, processMessagesFn,
          runs, timers, lastTimestamp, lastAgentTimestampByFolder, db, stored,
          pollQueue, failures, streak, handoffs, web,
          last>>

(* ------------------------------ helpers ------------------------------- *)

RECURSIVE Pow2(_)
\* Math.pow(2, n) for n >= 0.
Pow2(n) == IF n <= 0 THEN 1 ELSE 2 * Pow2(n - 1)

\* Array.prototype.includes on a sequence.
Includes(s, x) == \E i \in 1..Len(s) : s[i] = x

\* The sequence s without its i-th element.
RemoveAt(s, i) == [j \in 1..(Len(s) - 1) |-> IF j < i THEN s[j] ELSE s[j + 1]]

\* The state getGroup creates for a key it has not seen.
NewGroupState ==
    [active |-> FALSE, pendingMessages |-> FALSE, pendingTasks |-> <<>>,
     process |-> NULL, processName |-> NULL, groupFolder |-> NULL,
     activeChatJid |-> NULL, retryCount |-> 0]

\* One invocation of runForGroup ("messages") or runTask ("task") that is
\* suspended at its await.
\* stage: "await" (the injected callback or task.fn is pending), "resolved"
\* (processGroupMessages returned true without dispatching), "typing"
\* (dispatched, awaiting setTyping before runAgent), "agent" (worker spawned).
\* prev, chat, sent, err are the locals previousCursor, targetChatJid,
\* outputSentToUser and hadError of processGroupMessages; handed is the
\* timestamp of the last of its missedMessages and prompt the messages of its
\* prompt (by timestamp).
NewRun(kind, task) ==
    [kind |-> kind, task |-> task, stage |-> "await", prev |-> 0,
     handed |-> 0, prompt |-> {}, chat |-> NULL, sent |-> FALSE,
     err |-> FALSE]

\* The scheduler's fields as one value, so that the handlers can call each other.
Q == [groups |-> groups, activeCount |-> activeCount,
      waitingGroups |-> waitingGroups, shuttingDown |-> shuttingDown,
      processMessagesFn |-> processMessagesFn, runs |-> runs, timers |-> timers,
      lastTimestamp |-> lastTimestamp,
      lastAgentTimestampByFolder |-> lastAgentTimestampByFolder,
      db |-> db, stored |-> stored, handoffs |-> handoffs,
      decisions |-> <<>>]

(* ------------------------ WebChannel (channels/web.ts) ----------------- *)

\* new WebChannel(opts): not connected, no listeners. events[l] is the
\* sequence of event types listener function l has been called with;
\* closures are the listeners holding an unsubscribe function; emits counts
\* the calls of emit.
NewWebChannel ==
    [connected |-> FALSE,
     listeners |-> <<>>,
     events    |-> [l \in ListenerIds |-> <<>>],
     closures  |-> {},
     emits     |-> 0]

\* emit without the try/catch: the first listener that throws ends the loop.
RECURSIVE Emit_NoCatch(_, _, _, _)
Emit_NoCatch(events, ls, type, throwers) ==
    IF ls = <<>> THEN events
    ELSE LET l == Head(ls)
             called == [events EXCEPT ![l] = Append(@, type)]
         IN  IF l \in throwers THEN called
             ELSE Emit_NoCatch(called, Tail(ls), type, throwers)

\* emit(event): call every listener of the Set in insertion order; a listener
\* in throwers throws after it was called, and the catch swallows it.
RECURSIVE Emit(_, _, _, _)
Emit(events, ls, type, throwers) ==
    IF ls = <<>> THEN events
    ELSE LET l == Head(ls)
             called == [events EXCEPT ![l] = Append(@, type)]
         IN  Emit(called, Tail(ls), type, throwers)

\* The body shared by ingestUserMessage, sendMessage and setTyping: return at
\* once when not connected, otherwise (after the opts callbacks) emit.
EmitIfConnected(w, type, throwers) ==
    IF ~w.connected THEN w
    ELSE [w EXCEPT !.events = Emit(w.events, w.listeners, type, throwers),
                   !.emits = @ + 1]

(* ------------------------ router (index.ts) helpers -------------------- *)

MAIN_GROUP_FOLDER == 1

RouterFolders == {1, 2}

\* registeredGroups: chat jid -> group. Folder 1 is the main group, bound to
\* two chats; folder 2 is bound to one chat and requires the trigger.
RegisteredGroups ==
    [j \in {"c1", "c2", "c3"} |->
        IF j = "c3" THEN [folder |-> 2, requiresTrigger |-> TRUE]
        ELSE [folder |-> MAIN_GROUP_FOLDER, requiresTrigger |-> FALSE]]

GetJidsForFolder(folder) ==
    {j \in DOMAIN RegisteredGroups : RegisteredGroups[j].folder = folder}

GetFolderGroup(folder) ==
    IF GetJidsForFolder(folder) = {} THEN NULL
    ELSE RegisteredGroups[CHOOSE j \in GetJidsForFolder(folder) : TRUE]

\* The rows of the messages table of the given chats with a timestamp after
\* `since`, in timestamp order.
GetMessagesSinceForJids(rows, jids, since) ==
    SelectSeq(rows, LAMBDA m : m.chat_jid \in jids /\ m.timestamp > since)

\* getNewMessages: the same query over every registered chat; newTimestamp is
\* the largest timestamp returned.
GetNewMessages(rows, jids, since) ==
    LET messages == GetMessagesSinceForJids(rows, jids, since) IN
    [messages |-> messages,
     newTimestamp |-> IF Len(messages) = 0 THEN since
                      ELSE messages[Len(messages)].timestamp]

\* The messages of a sequence, by their timestamps.
Timestamps(messages) == {messages[i].timestamp : i \in 1..Len(messages)}

\* An entry of the history of a folder: a prompt given to a spawned worker, a
\* pipe-in accepted by a running worker, the first output a run delivers to
\* the user, or a rollback of the cursor.
Handoff(kind, msgs) == [kind |-> kind, msgs |-> msgs]

\* TRIGGER_PATTERN.test on some message of the sequence.
HasTrigger(messages) == \E i \in 1..Len(messages) : messages[i].trigger

NeedsTrigger(group) ==
    group.folder # MAIN_GROUP_FOLDER /\ group.requiresTrigger # FALSE

\* saveState: both router_state rows are rewritten; the cursor row holds the
\* JSON text of the map, which parses again (corrupt is whether the row's text
\* fails to parse).
SaveState(q) ==
    [q EXCEPT !.db = [last_timestamp |-> q.lastTimestamp,
                      last_agent_timestamp |-> q.lastAgentTimestampByFolder,
                      corrupt |-> FALSE]]

\* Mutant: the advanced cursor is not saved at dispatch.
ProcessGroupMessagesStart_NoSave(q, g) ==
    LET n == Len(q.runs[g])
        missedMessages == GetMessagesSinceForJids(
                              q.stored, GetJidsForFolder(g),
                              q.lastAgentTimestampByFolder[g])
    IN  IF \/ GetJidsForFolder(g) = {}
           \/ Len(missedMessages) = 0
           \/ NeedsTrigger(GetFolderGroup(g)) /\ ~HasTrigger(missedMessages)
        THEN [q EXCEPT !.runs[g][n].stage = "resolved"]
        ELSE [q EXCEPT
                !.runs[g][n].stage = "typing",
                !.runs[g][n].chat = missedMessages[Len(missedMessages)].chat_jid,
                !.runs[g][n].prev = q.lastAgentTimestampByFolder[g],
                !.runs[g][n].handed =
                    missedMessages[Len(missedMessages)].timestamp,
                !.runs[g][n].prompt = Timestamps(missedMessages),
                !.lastAgentTimestampByFolder[g] =
                    missedMessages[Len(missedMessages)].timestamp]

\* Mutant: the prompt holds only the newest message, not what accumulated.
ProcessGroupMessagesStart_LastOnly(q, g) ==
    LET group == GetFolderGroup(g)
        n == Len(q.runs[g])
        missedMessages == GetMessagesSinceForJids(
                              q.stored, GetJidsForFolder(g),
                              q.lastAgentTimestampByFolder[g])
    IN  IF \/ GetJidsForFolder(g) = {}
           \/ Len(missedMessages) = 0
           \/ NeedsTrigger(group) /\ ~HasTrigger(missedMessages)
        THEN [q EXCEPT !.runs[g][n].stage = "resolved"]
        ELSE SaveState(
               [q EXCEPT
                  !.runs[g][n].stage = "typing",
                  !.runs[g][n].chat = missedMessages[Len(missedMessages)].chat_jid,
                  !.runs[g][n].prev = q.lastAgentTimestampByFolder[g],
                  !.runs[g][n].handed =
                      missedMessages[Len(missedMessages)].timestamp,
                  !.runs[g][n].prompt =
                      {missedMessages[Len(missedMessages)].timestamp},
                  !.lastAgentTimestampByFolder[g] =
                      missedMessages[Len(missedMessages)].timestamp])

\* Mutant: processGroupMessages without its trigger check.
ProcessGroupMessagesStart_NoTriggerCheck(q, g) ==
    LET n == Len(q.runs[g])
        missedMessages == GetMessagesSinceForJids(
                              q.stored, GetJidsForFolder(g),
                              q.lastAgentTimestampByFolder[g])
    IN  IF GetJidsForFolder(g) = {} \/ Len(missedMessages) = 0
        THEN [q EXCEPT !.runs[g][n].stage = "resolved"]
        ELSE SaveState(
               [q EXCEPT
                  !.runs[g][n].stage = "typing",
                  !.runs[g][n].chat = missedMessages[Len(missedMessages)].chat_jid,
                  !.runs[g][n].prev = q.lastAgentTimestampByFolder[g],
                  !.runs[g][n].handed =
                      missedMessages[Len(missedMessages)].timestamp,
                  !.runs[g][n].prompt = Timestamps(missedMessages),
                  !.lastAgentTimestampByFolder[g] =
                      missedMessages[Len(missedMessages)].timestamp])

\* processGroupMessages up to its first await, for the invocation of
\* runForGroup that was just added to runs[g].
ProcessGroupMessagesStart(q, g) ==
    LET group == GetFolderGroup(g)
        n == Len(q.runs[g])
        missedMessages == GetMessagesSinceForJids(
                              q.stored, GetJidsForFolder(g),
                              q.lastAgentTimestampByFolder[g])
    IN  IF \/ GetJidsForFolder(g) = {}
           \/ Len(missedMessages) = 0
           \/ NeedsTrigger(group) /\ ~HasTrigger(missedMessages)
        THEN [q EXCEPT !.runs[g][n].stage = "resolved"]
        ELSE SaveState(
               [q EXCEPT
                  !.runs[g][n].stage = "typing",
                  !.runs[g][n].chat = missedMessages[Len(missedMessages)].chat_jid,
                  !.runs[g][n].prev = q.lastAgentTimestampByFolder[g],
                  !.runs[g][n].handed =
                      missedMessages[Len(missedMessages)].timestamp,
                  !.runs[g][n].prompt = Timestamps(missedMessages),
                  !.lastAgentTimestampByFolder[g] =
                      missedMessages[Len(missedMessages)].timestamp])

\* Mutant: the cursor is left advanced when the run fails without output.
ProcessGroupMessagesEnd_NoRollback(q, g, i, output) ==
    LET run == q.runs[g][i] IN
    IF output = "error" \/ run.err
    THEN IF run.sent THEN <<q, TRUE>> ELSE <<q, FALSE>>
    ELSE <<q, TRUE>>

\* Mutant: the cursor is rolled back on every failed run, output sent or not.
ProcessGroupMessagesEnd_AlwaysRollback(q, g, i, output) ==
    LET run == q.runs[g][i] IN
    IF output = "error" \/ run.err
    THEN <<SaveState([q EXCEPT !.lastAgentTimestampByFolder[g] = run.prev]),
           run.sent>>
    ELSE <<q, TRUE>>

\* Mutant: a run that fails after its output was sent returns false.
ProcessGroupMessagesEnd_FailAfterOutput(q, g, i, output) ==
    LET run == q.runs[g][i] IN
    IF output = "error" \/ run.err
    THEN IF run.sent
         THEN <<q, FALSE>>
         ELSE <<SaveState([q EXCEPT !.lastAgentTimestampByFolder[g] = run.prev]),
                FALSE>>
    ELSE <<q, TRUE>>

\* Mutant: the rolled-back cursor stays in memory only.
ProcessGroupMessagesEnd_RollbackNoSave(q, g, i, output) ==
    LET run == q.runs[g][i] IN
    IF output = "error" \/ run.err
    THEN IF run.sent
         THEN <<q, TRUE>>
         ELSE <<[q EXCEPT !.lastAgentTimestampByFolder[g] = run.prev], FALSE>>
    ELSE <<q, TRUE>>

\* processGroupMessages after runAgent returned `output`: the world after it
\* and the value it returns to runForGroup.
ProcessGroupMessagesEnd(q, g, i, output) ==
    LET run == q.runs[g][i] IN
    IF output = "error" \/ run.err
    THEN IF run.sent
         THEN <<q, TRUE>>
         ELSE <<SaveState([q EXCEPT !.lastAgentTimestampByFolder[g] = run.prev]),
                FALSE>>
    ELSE <<q, TRUE>>

(* ------------------------- GroupQueue methods ------------------------- *)

\* runForGroup up to its await: the group becomes active.
RunForGroup(q, g) ==
    LET q1 == [q EXCEPT !.groups[g].active = TRUE,
                        !.groups[g].pendingMessages = FALSE,
                        !.activeCount = @ + 1,
                        !.runs[g] = Append(@, NewRun("messages", NULL))]
    IN  IF q.processMessagesFn = "processGroupMessages"
        THEN ProcessGroupMessagesStart(q1, g)
        ELSE q1

\* Mutant: runTask without activeCount++.
RunTask_NoIncrement(q, g, t) ==
    [q EXCEPT !.groups[g].active = TRUE,
              !.runs[g] = Append(@, NewRun("task", t))]

\* runTask up to its await.
RunTask(q, g, t) ==
    [q EXCEPT !.groups[g].active = TRUE,
              !.activeCount = @ + 1,
              !.runs[g] = Append(@, NewRun("task", t))]

\* Mutant: enqueueMessageCheck without the concurrency-ceiling branch.
EnqueueMessageCheckQ_NoCeiling(q, g) ==
    IF q.shuttingDown THEN q
    ELSE IF q.groups[g].active
         THEN [q EXCEPT !.groups[g].pendingMessages = TRUE]
    ELSE RunForGroup(q, g)

\* Mutant: a check for an active group also puts the group on the waiting list.
EnqueueMessageCheckQ_WaitWhileActive(q, g) ==
    IF q.shuttingDown THEN q
    ELSE IF q.groups[g].active
         THEN [q EXCEPT !.groups[g].pendingMessages = TRUE,
                        !.waitingGroups =
                            IF Includes(@, g) THEN @ ELSE Append(@, g)]
    ELSE IF q.activeCount >= MAX_CONCURRENT_AGENTS
         THEN [q EXCEPT !.groups[g].pendingMessages = TRUE,
                        !.waitingGroups =
                            IF Includes(@, g) THEN @ ELSE Append(@, g)]
    ELSE RunForGroup(q, g)

EnqueueMessageCheckQ(q, g) ==
    IF q.shuttingDown THEN q
    ELSE IF q.groups[g].active
         THEN [q EXCEPT !.groups[g].pendingMessages = TRUE]
    ELSE IF q.activeCount >= MAX_CONCURRENT_AGENTS
         THEN [q EXCEPT !.groups[g].pendingMessages = TRUE,
                        !.waitingGroups =
                            IF Includes(@, g) THEN @ ELSE Append(@, g)]
    ELSE RunForGroup(q, g)

\* Mutant: enqueueTask without the "already queued" check.
EnqueueTaskQ_NoDedup(q, g, t) ==
    IF q.shuttingDown THEN q
    ELSE IF q.groups[g].active
         THEN [q EXCEPT !.groups[g].pendingTasks = Append(@, t)]
    ELSE IF q.activeCount >= MAX_CONCURRENT_AGENTS
         THEN [q EXCEPT !.groups[g].pendingTasks = Append(@, t),
                        !.waitingGroups =
                            IF Includes(@, g) THEN @ ELSE Append(@, g)]
    ELSE RunTask(q, g, t)

\* Mutant: enqueueTask at the ceiling pushes the group without looking.
EnqueueTaskQ_PushAlways(q, g, t) ==
    IF q.shuttingDown THEN q
    ELSE IF Includes(q.groups[g].pendingTasks, t) THEN q
    ELSE IF q.groups[g].active
         THEN [q EXCEPT !.groups[g].pendingTasks = Append(@, t)]
    ELSE IF q.activeCount >= MAX_CONCURRENT_AGENTS
         THEN [q EXCEPT !.groups[g].pendingTasks = Append(@, t),
                        !.waitingGroups = Append(@, g)]
    ELSE RunTask(q, g, t)

\* Mutant: the dedup check also looks at the task that is running.
EnqueueTaskQ_DedupRunning(q, g, t) ==
    IF q.shuttingDown THEN q
    ELSE IF Includes(q.groups[g].pendingTasks, t) THEN q
    ELSE IF \E i \in 1..Len(q.runs[g]) : q.runs[g][i].task = t THEN q
    ELSE IF q.groups[g].active
         THEN [q EXCEPT !.groups[g].pendingTasks = Append(@, t)]
    ELSE IF q.activeCount >= MAX_CONCURRENT_AGENTS
         THEN [q EXCEPT !.groups[g].pendingTasks = Append(@, t),
                        !.waitingGroups =
                            IF Includes(@, g) THEN @ ELSE Append(@, g)]
    ELSE RunTask(q, g, t)

EnqueueTaskQ(q, g, t) ==
    IF q.shuttingDown THEN q
    ELSE IF Includes(q.groups[g].pendingTasks, t) THEN q
    ELSE IF q.groups[g].active
         THEN [q EXCEPT !.groups[g].pendingTasks = Append(@, t)]
    ELSE IF q.activeCount >= MAX_CONCURRENT_AGENTS
         THEN [q EXCEPT !.groups[g].pendingTasks = Append(@, t),
                        !.waitingGroups =
                            IF Includes(@, g) THEN @ ELSE Append(@, g)]
    ELSE RunTask(q, g, t)

\* Mutant: the retry budget tested with >= instead of >.
ScheduleRetry_OffByOne(q, g) ==
    LET rc == q.groups[g].retryCount + 1 IN
    IF rc >= MAX_RETRIES
    THEN [q EXCEPT !.groups[g].retryCount = 0]
    ELSE [q EXCEPT !.groups[g].retryCount = rc,
                   !.timers[g] = Append(@, BASE_RETRY_MS * Pow2(rc - 1))]

ScheduleRetry(q, g) ==
    LET rc == q.groups[g].retryCount + 1 IN
    IF rc > MAX_RETRIES
    THEN [q EXCEPT !.groups[g].retryCount = 0]
    ELSE [q EXCEPT !.groups[g].retryCount = rc,
                   !.timers[g] = Append(@, BASE_RETRY_MS * Pow2(rc - 1))]

\* The sequence s without its last element.
Front(s) == SubSeq(s, 1, Len(s) - 1)

RECURSIVE DrainWaiting_Lifo(_)
\* Mutant: drainWaiting taking the most recent waiting group (pop, not shift).
DrainWaiting_Lifo(q) ==
    IF Len(q.waitingGroups) > 0 /\ q.activeCount < MAX_CONCURRENT_AGENTS
    THEN LET nextJid == q.waitingGroups[Len(q.waitingGroups)]
             q1 == [q EXCEPT !.waitingGroups = Front(@)]
         IN  IF Len(q1.groups[nextJid].pendingTasks) > 0
             THEN DrainWaiting_Lifo(
                      RunTask([q1 EXCEPT !.groups[nextJid].pendingTasks = Tail(@)],
                              nextJid, Head(q1.groups[nextJid].pendingTasks)))
             ELSE IF q1.groups[nextJid].pendingMessages
             THEN DrainWaiting_Lifo(RunForGroup(q1, nextJid))
             ELSE DrainWaiting_Lifo(q1)
    ELSE q

RECURSIVE DrainWaiting(_)
DrainWaiting(q) ==
    IF Len(q.waitingGroups) > 0 /\ q.activeCount < MAX_CONCURRENT_AGENTS
    THEN LET nextJid == Head(q.waitingGroups)
             q1 == [q EXCEPT !.waitingGroups = Tail(@)]
         IN  IF Len(q1.groups[nextJid].pendingTasks) > 0
             THEN DrainWaiting(
                      RunTask([q1 EXCEPT !.groups[nextJid].pendingTasks = Tail(@)],
                              nextJid, Head(q1.groups[nextJid].pendingTasks)))
             ELSE IF q1.groups[nextJid].pendingMessages
             THEN DrainWaiting(RunForGroup(q1, nextJid))
             ELSE DrainWaiting(q1)
    ELSE q

\* Mutant: drainGroup serving the pending message check before the tasks.
DrainGroup_MessagesFirst(q, g) ==
    IF q.shuttingDown THEN q
    ELSE IF q.groups[g].pendingMessages
         THEN RunForGroup(q, g)
    ELSE IF Len(q.groups[g].pendingTasks) > 0
         THEN RunTask([q EXCEPT !.groups[g].pendingTasks = Tail(@)],
                      g, Head(q.groups[g].pendingTasks))
    ELSE DrainWaiting(q)

\* Mutant: drainGroup without the shuttingDown guard.
DrainGroup_NoShutdownGuard(q, g) ==
    IF Len(q.groups[g].pendingTasks) > 0
    THEN RunTask([q EXCEPT !.groups[g].pendingTasks = Tail(@)],
                 g, Head(q.groups[g].pendingTasks))
    ELSE IF q.groups[g].pendingMessages
         THEN RunForGroup(q, g)
    ELSE DrainWaiting(q)

\* Mutant: drainGroup never looks at the waiting list.
DrainGroup_OwnQueueOnly(q, g) ==
    IF q.shuttingDown THEN q
    ELSE IF Len(q.groups[g].pendingTasks) > 0
         THEN RunTask([q EXCEPT !.groups[g].pendingTasks = Tail(@)],
                      g, Head(q.groups[g].pendingTasks))
    ELSE IF q.groups[g].pendingMessages
         THEN RunForGroup(q, g)
    ELSE q

DrainGroup(q, g) ==
    IF q.shuttingDown THEN q
    ELSE IF Len(q.groups[g].pendingTasks) > 0
         THEN RunTask([q EXCEPT !.groups[g].pendingTasks = Tail(@)],
                      g, Head(q.groups[g].pendingTasks))
    ELSE IF q.groups[g].pendingMessages
         THEN RunForGroup(q, g)
    ELSE DrainWaiting(q)

\* Mutant: the finally block forgets to reset the worker's handle and folder.
RunFinally_NoReset(q, g, i) ==
    DrainGroup([q EXCEPT !.groups[g].active = FALSE,
                         !.activeCount = @ - 1,
                         !.runs[g] = RemoveAt(@, i)],
               g)

\* The finally block of runForGroup and of runTask, for the i-th suspended
\* invocation of group g.
RunFinally(q, g, i) ==
    DrainGroup([q EXCEPT !.groups[g].active = FALSE,
                         !.groups[g].process = NULL,
                         !.groups[g].processName = NULL,
                         !.groups[g].groupFolder = NULL,
                         !.groups[g].activeChatJid = NULL,
                         !.activeCount = @ - 1,
                         !.runs[g] = RemoveAt(@, i)],
               g)

\* Mutant: runForGroup without its catch block: a rejection skips
\* scheduleRetry and only the finally block runs.
RunForGroupSettle_NoCatch(q, g, i, outcome) ==
    RunFinally(IF outcome = "success"
               THEN [q EXCEPT !.groups[g].retryCount = 0]
               ELSE IF outcome = "failure" THEN ScheduleRetry(q, g)
               ELSE q,
               g, i)

\* runForGroup from the point where processMessagesFn settles: outcome is
\* "success" (resolved true), "failure" (resolved false) or "throw" (rejected).
RunForGroupSettle(q, g, i, outcome) ==
    RunFinally(IF outcome = "success"
               THEN [q EXCEPT !.groups[g].retryCount = 0]
               ELSE ScheduleRetry(q, g),
               g, i)

\* runTask from the point where task.fn settles; a rejection is only logged.
\* Mutant: a task that throws is retried like a failed message check.
RunTaskSettle_RetryOnThrow(q, g, i, outcome) ==
    RunFinally(IF outcome = "throw" THEN ScheduleRetry(q, g) ELSE q, g, i)

\* runTask after the await: task.fn resolved ("success") or rejected ("throw");
\* the catch only logs.
RunTaskSettle(q, g, i, outcome) == RunFinally(q, g, i)

\* Mutant: the retry timer restarts the run itself instead of enqueueing.
RetryTimerQ_DirectRun(q, g, i) ==
    LET q1 == [q EXCEPT !.timers[g] = RemoveAt(@, i)] IN
    IF ~q1.shuttingDown THEN RunForGroup(q1, g) ELSE q1

\* The setTimeout callback of scheduleRetry.
RetryTimerQ(q, g, i) ==
    LET q1 == [q EXCEPT !.timers[g] = RemoveAt(@, i)] IN
    IF ~q1.shuttingDown THEN EnqueueMessageCheckQ(q1, g) ELSE q1

\* Mutant: sendMessage without the chat-conflict test.
SendMessageResult_NoChatCheck(state, chatJid, writeOk) ==
    IF ~state.active \/ state.groupFolder = NULL THEN FALSE
    ELSE writeOk

\* The result of sendMessage; writeOk is whether the mailbox file was written.
SendMessageResult(state, chatJid, writeOk) ==
    IF ~state.active \/ state.groupFolder = NULL THEN FALSE
    ELSE IF chatJid # NULL /\ state.activeChatJid # NULL
            /\ state.activeChatJid # chatJid THEN FALSE
    ELSE writeOk

\* registerProcess.
RegisterProcessQ(q, g, groupFolder, activeChatJid) ==
    [q EXCEPT
       !.groups[g].process = "proc",
       !.groups[g].processName = "name",
       !.groups[g].groupFolder = IF groupFolder # NULL THEN groupFolder ELSE @,
       !.groups[g].activeChatJid =
           IF activeChatJid # NULL THEN activeChatJid ELSE @]

\* Whether closeStdin writes the _close sentinel.
CloseStdinWrites(state) == state.active /\ state.groupFolder # NULL

(* ------------------------------ actions ------------------------------- *)

\* Store the scheduler fields of q.
SetQ(q) ==
    /\ groups' = q.groups
    /\ activeCount' = q.activeCount
    /\ waitingGroups' = q.waitingGroups
    /\ shuttingDown' = q.shuttingDown
    /\ runs' = q.runs
    /\ timers' = q.timers
    /\ lastTimestamp' = q.lastTimestamp
    /\ lastAgentTimestampByFolder' = q.lastAgentTimestampByFolder
    /\ db' = q.db
    /\ handoffs' = q.handoffs

\* History: the handler that ran, the group it ran for, its argument and result.
Op(name, g, arg, ret) == [op |-> name, g |-> g, arg |-> arg, ret |-> ret]

Log(name, g, arg, ret) == last' = Op(name, g, arg, ret)

InitWith(fn) ==
    /\ groups = [g \in AllKeys |-> NewGroupState]
    /\ activeCount = 0
    /\ waitingGroups = <<>>
    /\ shuttingDown = FALSE
    /\ processMessagesFn = fn
    /\ runs = [g \in AllKeys |-> <<>>]
    /\ timers = [g \in AllKeys |-> <<>>]
    /\ lastTimestamp = 0
    /\ lastAgentTimestampByFolder = [g \in AllKeys |-> 0]
    /\ db = [last_timestamp |-> 0,
             last_agent_timestamp |-> [g \in AllKeys |-> 0],
             corrupt |-> FALSE]
    /\ stored = <<>>
    /\ pollQueue = [waiting |-> FALSE, rest |-> <<>>]
    /\ failures = 0
    /\ streak = [g \in AllKeys |-> 0]
    /\ handoffs = [g \in AllKeys |-> <<>>]
    /\ web = NewWebChannel
    /\ last = Op("init", NULL, NULL, NULL)

\* The scheduler with an arbitrary injected callback.
Init == InitWith("stub")

\* The scheduler as main() wires it: setProcessMessagesFn(processGroupMessages).
InitRouter == InitWith("processGroupMessages")

EnqueueMessageCheck(g) ==
    /\ SetQ(EnqueueMessageCheckQ(Q, g))
    /\ UNCHANGED <<web, processMessagesFn, stored, pollQueue, failures, streak>>

EnqueueTask(g, t) ==
    /\ SetQ(EnqueueTaskQ(Q, g, t))
    /\ UNCHANGED <<web, processMessagesFn, stored, pollQueue, failures, streak>>

\* The injected processMessagesFn settles for the i-th message-check run of g:
\* "success" (resolved true), "failure" (resolved false) or "throw" (rejected).
MessageRunSettles(g, i, outcome, maxFailures) ==
    /\ i \in 1..Len(runs[g])
    /\ runs[g][i].kind = "messages"
    /\ runs[g][i].stage = "await"
    /\ outcome # "success" =>
           /\ failures < maxFailures
           /\ groups[g].retryCount < MAX_RETRIES => Len(timers[g]) < MaxTimers
    /\ SetQ(RunForGroupSettle(Q, g, i, outcome))
    /\ failures' = IF outcome = "success" THEN failures ELSE failures + 1
    /\ streak' = [streak EXCEPT ![g] = IF outcome = "success" THEN 0 ELSE @ + 1]
    /\ UNCHANGED <<web, processMessagesFn, stored, pollQueue>>

\* task.fn settles (resolved or rejected) for the i-th task run of g.
TaskRunSettles(g, i, outcome) ==
    /\ i \in 1..Len(runs[g])
    /\ runs[g][i].kind = "task"
    /\ SetQ(RunTaskSettle(Q, g, i, outcome))
    /\ UNCHANGED <<web, processMessagesFn, stored, pollQueue, failures, streak>>

RetryTimerFires(g, i) ==
    /\ i \in 1..Len(timers[g])
    /\ SetQ(RetryTimerQ(Q, g, i))
    /\ UNCHANGED <<web, processMessagesFn, stored, pollQueue, failures, streak>>

\* Mutant: shutdown kills the workers and forgets their runs.
Shutdown_KillsRuns ==
    /\ shuttingDown' = TRUE
    /\ groups' = [g \in AllKeys |->
                    [groups[g] EXCEPT !.active = FALSE, !.process = NULL]]
    /\ activeCount' = 0
    /\ runs' = [g \in AllKeys |-> <<>>]
    /\ UNCHANGED <<web, waitingGroups, processMessagesFn, timers, lastTimestamp,
                   lastAgentTimestampByFolder, db, stored, pollQueue, failures,
                   streak,
                   handoffs>>

Shutdown ==
    /\ shuttingDown' = TRUE
    /\ UNCHANGED <<web, groups, activeCount, waitingGroups, processMessagesFn,
                   runs, timers, lastTimestamp, lastAgentTimestampByFolder, db,
                   stored, pollQueue, failures, streak,
                   handoffs>>

\* registerProcess, called by the worker runner once the process of the run in
\* flight has been spawned.
RegisterProcess(g, groupFolder, activeChatJid) ==
    /\ Len(runs[g]) > 0
    /\ SetQ(RegisterProcessQ(Q, g, groupFolder, activeChatJid))
    /\ UNCHANGED <<web, processMessagesFn, stored, pollQueue, failures, streak>>

\* Mutant: sendMessage consuming the group's pending message check when it
\* delivers.
SendMessageQ_ClearsPending(q, g, chatJid, writeOk) ==
    IF SendMessageResult(q.groups[g], chatJid, writeOk)
    THEN [q EXCEPT !.groups[g].pendingMessages = FALSE]
    ELSE q

\* What sendMessage does to the scheduler: it reads the group's state and
\* writes only the mailbox directory, whatever it returns.
SendMessageQ(q, g, chatJid, writeOk) == q

\* What closeStdin does to the scheduler: it reads the group's state and writes
\* at most the _close file.
CloseStdinQ(q, g) == q

SendMessage(g, chatJid, writeOk) ==
    /\ SetQ(SendMessageQ(Q, g, chatJid, writeOk))
    /\ UNCHANGED <<web, processMessagesFn, stored, pollQueue, failures, streak>>

CloseStdin(g) ==
    /\ SetQ(CloseStdinQ(Q, g))
    /\ UNCHANGED <<web, processMessagesFn, stored, pollQueue, failures, streak>>

(* ----------------------- WebChannel actions ---------------------------- *)

\* The WebChannel shares no state with the scheduler and the router.
WebOnly ==
    UNCHANGED <<groups, activeCount, waitingGroups, shuttingDown,
                processMessagesFn, runs, timers, lastTimestamp,
                lastAgentTimestampByFolder, db, stored, pollQueue, failures,
                streak, handoffs>>

WebConnect ==
    /\ web' = [web EXCEPT !.connected = TRUE]
    /\ WebOnly

WebDisconnect ==
    /\ web' = [web EXCEPT !.connected = FALSE, !.listeners = <<>>]
    /\ WebOnly

\* listeners.add(listener): a Set keeps one entry per function.
WebSubscribe(l) ==
    /\ web' = [web EXCEPT
                  !.listeners = IF Includes(@, l) THEN @ ELSE Append(@, l),
                  !.closures = @ \cup {l}]
    /\ WebOnly

\* The function subscribe returned: listeners.delete(listener).
WebUnsubscribe(l) ==
    /\ l \in web.closures
    /\ web' = [web EXCEPT
                  !.listeners = SelectSeq(@, LAMBDA x : x # l)]
    /\ WebOnly

WebEmitCall(type, throwers) ==
    /\ web.connected => web.emits < MaxEvents
    /\ web' = EmitIfConnected(web, type, throwers)
    /\ WebOnly

WebIngestUserMessage(throwers) == WebEmitCall("message", throwers)

WebSendMessage(throwers) == WebEmitCall("message", throwers)

WebSetTyping(throwers) == WebEmitCall("typing", throwers)

(* ----------------------- router (index.ts) actions --------------------- *)

\* storeMessage: a channel delivers an inbound message; its timestamp is later
\* than every stored one.
StoreMessage(jid, trigger) ==
    /\ Len(stored) < MaxMessages
    /\ stored' = Append(stored, [timestamp |-> Len(stored) + 1,
                                 chat_jid |-> jid, trigger |-> trigger])
    /\ UNCHANGED <<web, groups, activeCount, waitingGroups, shuttingDown,
                   processMessagesFn, runs, timers, lastTimestamp,
                   lastAgentTimestampByFolder, db, pollQueue, failures,
                   streak,
                   handoffs>>

RECURSIVE FolderOrder(_, _)
\* The keys of messagesByFolder in insertion order: each folder at the place of
\* its first message.
FolderOrder(messages, seen) ==
    IF Len(messages) = 0 THEN <<>>
    ELSE LET folder == RegisteredGroups[Head(messages).chat_jid].folder IN
         IF folder \in seen
         THEN FolderOrder(Tail(messages), seen)
         ELSE <<folder>> \o FolderOrder(Tail(messages), seen \cup {folder})

MessagesByFolder(messages) ==
    LET order == FolderOrder(messages, {}) IN
    [k \in 1..Len(order) |->
        [folder |-> order[k],
         messages |-> SelectSeq(messages, LAMBDA m :
                          RegisteredGroups[m.chat_jid].folder = order[k])]]

\* What a per-folder decision of the poll loop can see and change.
Snap(q) ==
    [groups |-> q.groups, activeCount |-> q.activeCount,
     waitingGroups |-> q.waitingGroups, runs |-> q.runs, timers |-> q.timers,
     lastTimestamp |-> q.lastTimestamp,
     cursor |-> q.lastAgentTimestampByFolder, db |-> q.db]

\* History: one pass of the folder loop's body. kind is "skip" (the trigger
\* gate), "pipe" (sendMessage returned true) or "enqueue"; write is "failed"
\* when sendMessage reached its filesystem write and the write threw; pre and
\* post are the state the pass found and the state it left.
Decision(kind, folder, folderMessages, messagesToSend, write, pre, post) ==
    [kind |-> kind, folder |-> folder,
     fetched |-> Timestamps(folderMessages),
     sent |-> Timestamps(messagesToSend),
     write |-> write, pre |-> Snap(pre), post |-> Snap(post)]

\* Mutant: the trigger gate of the poll loop lets every batch through.
TriggerGate_Open(group, folderMessages) == FALSE

\* The poll loop's trigger gate: TRUE when the folder is passed over.
TriggerGate(group, folderMessages) ==
    NeedsTrigger(group) /\ ~HasTrigger(folderMessages)

\* Mutant: after a successful pipe-in the cursor is moved but not saved.
PipeIn_NoSave(q, folder, messagesToSend) ==
    [q EXCEPT !.lastAgentTimestampByFolder[folder] =
                  messagesToSend[Len(messagesToSend)].timestamp,
              !.handoffs[folder] =
                  Append(@, Handoff("pipe", Timestamps(messagesToSend)))]

\* The branch taken when queue.sendMessage returned true.
PipeIn(q, folder, messagesToSend) ==
    SaveState(
      [q EXCEPT !.lastAgentTimestampByFolder[folder] =
                    messagesToSend[Len(messagesToSend)].timestamp,
                !.handoffs[folder] =
                    Append(@, Handoff("pipe", Timestamps(messagesToSend)))])

\* Mutant: the cursor is advanced and saved by the poll loop itself before it
\* calls enqueueMessageCheck.
PollFallback_AdvanceFirst(q, folder, messagesToSend) ==
    EnqueueMessageCheckQ(
        SaveState([q EXCEPT !.lastAgentTimestampByFolder[folder] =
                                messagesToSend[Len(messagesToSend)].timestamp]),
        folder)

\* The branch taken when queue.sendMessage returned false.
PollFallback(q, folder, messagesToSend) == EnqueueMessageCheckQ(q, folder)

\* Mutant: a failed mailbox write is taken for a delivery.
PollSendMessage_IgnoreWrite(q, folder, chatJid, writeOk) ==
    SendMessageResult(q.groups[folder], chatJid, TRUE)

\* The poll loop's call of queue.sendMessage.
PollSendMessage(q, folder, chatJid, writeOk) ==
    SendMessageResult(q.groups[folder], chatJid, writeOk)

\* The body of the loop over messagesByFolder for one folder: the state it
\* leaves (with the pass recorded) and whether it ends in the await that
\* follows a pipe-in.
PollFolder(q, folder, folderMessages, writeOk) ==
    LET group == GetFolderGroup(folder) IN
    IF GetJidsForFolder(folder) = {} THEN [q |-> q, piped |-> FALSE]
    ELSE IF TriggerGate(group, folderMessages)
    THEN [q |-> [q EXCEPT !.decisions =
                     Append(@, Decision("skip", folder, folderMessages, <<>>,
                                        "none", q, q))],
          piped |-> FALSE]
    ELSE
      LET allPending == GetMessagesSinceForJids(
                            q.stored, GetJidsForFolder(folder),
                            q.lastAgentTimestampByFolder[folder])
          messagesToSend == IF Len(allPending) > 0 THEN allPending
                            ELSE folderMessages
          targetChatJid == messagesToSend[Len(messagesToSend)].chat_jid
          write == IF ~SendMessageResult(q.groups[folder], targetChatJid, TRUE)
                   THEN "none"
                   ELSE IF writeOk[folder] THEN "ok" ELSE "failed"
      IN
      IF PollSendMessage(q, folder, targetChatJid, writeOk[folder])
      THEN LET q2 == PipeIn(q, folder, messagesToSend) IN
           [q |-> [q2 EXCEPT !.decisions =
                      Append(@, Decision("pipe", folder, folderMessages,
                                         messagesToSend, write, q, q2))],
            piped |-> TRUE]
      ELSE LET q2 == PollFallback(q, folder, messagesToSend) IN
           [q |-> [q2 EXCEPT !.decisions =
                      Append(@, Decision("enqueue", folder, folderMessages,
                                         messagesToSend, write, q, q2))],
            piped |-> FALSE]

RECURSIVE PollFolders(_, _, _)
\* The loop over messagesByFolder, up to its end or to the await that follows
\* a successful pipe-in; poll.rest is what is left to visit after that await.
PollFolders(q, batches, writeOk) ==
    IF Len(batches) = 0 THEN [q |-> q, poll |-> [waiting |-> FALSE, rest |-> <<>>]]
    ELSE
      LET res == PollFolder(q, Head(batches).folder, Head(batches).messages,
                            writeOk)
      IN  IF res.piped
          THEN [q |-> res.q, poll |-> [waiting |-> TRUE, rest |-> Tail(batches)]]
          ELSE PollFolders(res.q, Tail(batches), writeOk)

\* Mutant: the watermark is advanced and saved after the folder loop.
PollCycle_WatermarkLast(q, writeOk) ==
    LET new == GetNewMessages(q.stored, DOMAIN RegisteredGroups, q.lastTimestamp)
        res == PollFolders(q, MessagesByFolder(new.messages), writeOk)
    IN  IF res.poll.waiting THEN res
        ELSE [res EXCEPT !.q = SaveState(
                                  [res.q EXCEPT !.lastTimestamp = new.newTimestamp])]

\* What one iteration of startMessageLoop that fetched messages does up to
\* its first await: watermark, saveState, then the folder loop.
PollCycle(q, writeOk) ==
    LET new == GetNewMessages(q.stored, DOMAIN RegisteredGroups, q.lastTimestamp)
    IN  PollFolders(SaveState([q EXCEPT !.lastTimestamp = new.newTimestamp]),
                    MessagesByFolder(new.messages), writeOk)

\* One iteration of startMessageLoop, from getNewMessages to the first await.
PollStart(writeOk) ==
    /\ processMessagesFn = "processGroupMessages"
    /\ ~pollQueue.waiting
    /\ Len(GetNewMessages(stored, DOMAIN RegisteredGroups,
                          lastTimestamp).messages) > 0
    /\ LET res == PollCycle(Q, writeOk)
       IN  SetQ(res.q) /\ pollQueue' = res.poll
    /\ UNCHANGED <<web, processMessagesFn, stored, failures, streak>>

\* The iteration continues after the await that follows a pipe-in.
PollResume(writeOk) ==
    /\ pollQueue.waiting
    /\ LET res == PollFolders(Q, pollQueue.rest, writeOk)
       IN  SetQ(res.q) /\ pollQueue' = res.poll
    /\ UNCHANGED <<web, processMessagesFn, stored, failures, streak>>

\* processGroupMessages returned true before dispatching; runForGroup resumes.
RunResolves(g, i) ==
    /\ i \in 1..Len(runs[g])
    /\ runs[g][i].stage = "resolved"
    /\ SetQ(RunForGroupSettle(Q, g, i, "success"))
    /\ streak' = [streak EXCEPT ![g] = 0]
    /\ UNCHANGED <<web, processMessagesFn, stored, pollQueue, failures>>

\* runAgent: the worker is spawned and registered with the scheduler.
AgentSpawns(g, i) ==
    /\ i \in 1..Len(runs[g])
    /\ runs[g][i].stage = "typing"
    /\ SetQ(RegisterProcessQ(
               [Q EXCEPT !.runs[g][i].stage = "agent",
                         !.handoffs[g] =
                             Append(@, Handoff("prompt", runs[g][i].prompt))],
               g, "folder", runs[g][i].chat))
    /\ UNCHANGED <<web, processMessagesFn, stored, pollQueue, failures, streak>>

\* The streaming callback of processGroupMessages: result is the streamed
\* text or NULL, outboundOk is what sendOutbound returns for it.
AgentOutput(g, i, result, status, outboundOk, maxFailures) ==
    /\ i \in 1..Len(runs[g])
    /\ runs[g][i].stage = "agent"
    /\ status = "error" => failures < maxFailures
    /\ runs' = [runs EXCEPT
           ![g][i].sent = @ \/ (result # NULL /\ outboundOk),
           ![g][i].err = @ \/ status = "error"]
    /\ handoffs' = IF ~runs[g][i].sent /\ result # NULL /\ outboundOk
                   THEN [handoffs EXCEPT ![g] = Append(@, Handoff("output", {}))]
                   ELSE handoffs
    /\ UNCHANGED <<web, groups, activeCount, waitingGroups, shuttingDown,
                   processMessagesFn, timers, lastTimestamp,
                   lastAgentTimestampByFolder, db, stored, pollQueue,
                   failures, streak>>

\* runAgent returns `output`; processGroupMessages decides about the rollback
\* and returns, and runForGroup resumes with its result.
AgentExits(g, i, output, maxFailures) ==
    /\ i \in 1..Len(runs[g])
    /\ runs[g][i].stage = "agent"
    /\ LET end == ProcessGroupMessagesEnd(Q, g, i, output)
           outcome == IF end[2] THEN "success" ELSE "failure"
       IN  /\ outcome = "failure" =>
                 /\ failures < maxFailures
                 /\ Len(timers[g]) < MaxTimers
           /\ SetQ(RunForGroupSettle(
                      IF end[1].lastAgentTimestampByFolder[g]
                             < lastAgentTimestampByFolder[g]
                      THEN [end[1] EXCEPT !.handoffs[g] =
                                Append(@, Handoff("rollback", {}))]
                      ELSE end[1],
                      g, i, outcome))
           /\ failures' = IF outcome = "success" THEN failures ELSE failures + 1
           /\ streak' = [streak EXCEPT
                            ![g] = IF outcome = "success" THEN 0 ELSE @ + 1]
    /\ UNCHANGED <<web, processMessagesFn, stored, pollQueue>>

(* ----------------------- crash and restart (main) ---------------------- *)

\* getUniqueFolders: the folders of registeredGroups, in insertion order.
GetUniqueFolders == <<MAIN_GROUP_FOLDER, 2>>

\* normalizeLastAgentTimestamps on what saveState wrote: the keys are folders,
\* no chat of registeredGroups is named like a folder, so every entry is kept
\* under its own key.
NormalizeLastAgentTimestamps(raw) == [f \in DOMAIN raw |-> raw[f]]

\* The value loadState gives rawAgentCursor: JSON.parse of the cursor row, or
\* {} when the parse throws (the catch only logs).
RawAgentCursor(row) ==
    IF row.corrupt THEN [g \in AllKeys |-> 0] ELSE row.last_agent_timestamp

\* Mutant: a cursor row that fails to parse resets the watermark as well.
LoadState_ResetAll(q) ==
    [q EXCEPT
       !.groups = [g \in AllKeys |-> NewGroupState],
       !.activeCount = 0,
       !.waitingGroups = <<>>,
       !.shuttingDown = FALSE,
       !.processMessagesFn = NULL,
       !.runs = [g \in AllKeys |-> <<>>],
       !.timers = [g \in AllKeys |-> <<>>],
       !.lastTimestamp = IF q.db.corrupt THEN 0 ELSE q.db.last_timestamp,
       !.lastAgentTimestampByFolder =
           NormalizeLastAgentTimestamps(RawAgentCursor(q.db))]

\* The module state of a fresh process after loadState: a new GroupQueue with
\* no callback yet, and the cursors read from the store.
LoadState(q) ==
    [q EXCEPT
       !.groups = [g \in AllKeys |-> NewGroupState],
       !.activeCount = 0,
       !.waitingGroups = <<>>,
       !.shuttingDown = FALSE,
       !.processMessagesFn = NULL,
       !.runs = [g \in AllKeys |-> <<>>],
       !.timers = [g \in AllKeys |-> <<>>],
       !.lastTimestamp = q.db.last_timestamp,
       !.lastAgentTimestampByFolder =
           NormalizeLastAgentTimestamps(RawAgentCursor(q.db))]

RECURSIVE RecoverPendingMessages_SinceWatermark(_, _)
\* Mutant: recovery looks for messages newer than the global watermark.
RecoverPendingMessages_SinceWatermark(q, folders) ==
    IF Len(folders) = 0 THEN q
    ELSE LET folder == Head(folders)
             pending == GetMessagesSinceForJids(
                            q.stored, GetJidsForFolder(folder), q.lastTimestamp)
         IN  RecoverPendingMessages_SinceWatermark(
                 IF Len(pending) > 0 THEN EnqueueMessageCheckQ(q, folder) ELSE q,
                 Tail(folders))

RECURSIVE RecoverPendingMessages(_, _)
\* recoverPendingMessages, over the folders still to visit.
RecoverPendingMessages(q, folders) ==
    IF Len(folders) = 0 THEN q
    ELSE LET folder == Head(folders)
             pending == GetMessagesSinceForJids(
                            q.stored, GetJidsForFolder(folder),
                            q.lastAgentTimestampByFolder[folder])
         IN  RecoverPendingMessages(
                 IF Len(pending) > 0 THEN EnqueueMessageCheckQ(q, folder) ELSE q,
                 Tail(folders))

\* The process dies between two handlers and is started again: main runs up to
\* loadState. The store and the history survive.
Crash(maxFailures) ==
    /\ processMessagesFn = "processGroupMessages"
    /\ failures < maxFailures
    /\ SetQ(LoadState(Q))
    /\ processMessagesFn' = NULL
    /\ pollQueue' = [waiting |-> FALSE, rest |-> <<>>]
    /\ failures' = failures + 1
    /\ streak' = [g \in AllKeys |-> 0]
    /\ UNCHANGED <<web, stored>>

\* The process dies inside a poll iteration, after saveState has persisted the
\* advanced watermark and before any folder of the batch is looked at.
CrashInPoll(maxFailures) ==
    /\ processMessagesFn = "processGroupMessages"
    /\ ~pollQueue.waiting
    /\ failures < maxFailures
    /\ LET new == GetNewMessages(stored, DOMAIN RegisteredGroups, lastTimestamp) IN
       /\ Len(new.messages) > 0
       /\ SetQ(LoadState(SaveState([Q EXCEPT !.lastTimestamp = new.newTimestamp])))
    /\ processMessagesFn' = NULL
    /\ pollQueue' = [waiting |-> FALSE, rest |-> <<>>]
    /\ failures' = failures + 1
    /\ streak' = [g \in AllKeys |-> 0]
    /\ UNCHANGED <<web, stored>>

\* main after the channels are connected: setProcessMessagesFn,
\* recoverPendingMessages, and the message loop starts.
Recover ==
    /\ processMessagesFn = NULL
    /\ SetQ(RecoverPendingMessages(
               [Q EXCEPT !.processMessagesFn = "processGroupMessages"],
               GetUniqueFolders))
    /\ processMessagesFn' = "processGroupMessages"
    /\ UNCHANGED <<web, stored, pollQueue, failures, streak>>

\* The cursor row of router_state is damaged on disk while the process runs:
\* its text no longer parses. Nothing in memory changes.
CorruptCursorRow ==
    /\ ~db.corrupt
    /\ db' = [db EXCEPT !.corrupt = TRUE]
    /\ UNCHANGED <<web, groups, activeCount, waitingGroups, shuttingDown,
                   processMessagesFn, runs, timers, lastTimestamp,
                   lastAgentTimestampByFolder, stored, pollQueue, failures,
                   streak, handoffs>>

Outcomes == {"success", "failure", "throw"}

\* Indices of the suspended invocations of one group that a step may settle.
RunIdx == 1..2

(* ---------------- the scheduler under an arbitrary callback ------------ *)

Next ==
    \/ \E g \in GroupKeys :
           EnqueueMessageCheck(g) /\ Log("enqueueMessageCheck", NULL, NULL, NULL)
    \/ \E g \in GroupKeys, t \in {"t1"} :
           EnqueueTask(g, t)
           /\ Log("enqueueTask", NULL, NULL,
                  IF ~shuttingDown /\ Includes(groups[g].pendingTasks, t)
                  THEN "skipped" ELSE NULL)
    \/ \E g \in GroupKeys, i \in RunIdx, o \in Outcomes :
           MessageRunSettles(g, i, o, MaxFailures)
           /\ Log("messageRunSettles", g, NULL, NULL)
    \/ \E g \in GroupKeys, i \in RunIdx :
           TaskRunSettles(g, i, "success") /\ Log("taskRunSettles", g, NULL, NULL)
    \/ \E g \in GroupKeys, i \in 1..MaxTimers :
           RetryTimerFires(g, i) /\ Log("retryTimer", NULL, NULL, NULL)
    \/ Shutdown /\ Log("shutdown", NULL, NULL, NULL)

Spec == Init /\ [][Next]_vars

(* ------------- one group failing repeatedly (the backoff schedule) ------ *)

\* Failures allowed in the backoff specification: one full retry budget, the
\* failure that exhausts it, and MaxFailures more.
BackoffFailures == MAX_RETRIES + 1 + MaxFailures

NextBackoff ==
    \/ EnqueueMessageCheck(1) /\ Log("enqueueMessageCheck", 1, NULL, NULL)
    \/ \E i \in RunIdx, o \in Outcomes :
           MessageRunSettles(1, i, o, BackoffFailures)
           /\ Log("messageRunSettles", 1, NULL, o)
    \/ \E i \in 1..MaxTimers :
           RetryTimerFires(1, i) /\ Log("retryTimer", 1, timers[1][i], NULL)
    \/ Shutdown /\ Log("shutdown", NULL, NULL, NULL)

SpecBackoff == Init /\ [][NextBackoff]_vars

(* ------------- more groups than slots (the waiting list) ---------------- *)

NextFifo ==
    \/ \E g \in AllKeys :
           EnqueueMessageCheck(g) /\ Log("enqueueMessageCheck", g, NULL, NULL)
    \/ \E g \in AllKeys, t \in {"t1"} :
           EnqueueTask(g, t) /\ Log("enqueueTask", g, t, NULL)
    \/ \E g \in AllKeys, i \in RunIdx :
           MessageRunSettles(g, i, "success", 0)
           /\ Log("messageRunSettles", g, NULL, "success")
    \/ \E g \in AllKeys, i \in RunIdx :
           TaskRunSettles(g, i, "success") /\ Log("taskRunSettles", g, NULL, NULL)

SpecFifo == Init /\ [][NextFifo]_vars

(* ------------- the waiting list when every run terminates --------------- *)

\* The message-check run of group g returns.
MessageRunEnds(g) ==
    \E i \in RunIdx :
        MessageRunSettles(g, i, "success", 0)
        /\ Log("messageRunSettles", g, NULL, "success")

\* The task run of group g returns.
TaskRunEnds(g) ==
    \E i \in RunIdx :
        TaskRunSettles(g, i, "success") /\ Log("taskRunSettles", g, NULL, NULL)

NextLive ==
    \/ \E g \in AllKeys :
           EnqueueMessageCheck(g) /\ Log("enqueueMessageCheck", g, NULL, NULL)
    \/ \E g \in AllKeys, t \in {"t1"} :
           EnqueueTask(g, t) /\ Log("enqueueTask", g, t, NULL)
    \/ \E g \in AllKeys : MessageRunEnds(g)
    \/ \E g \in AllKeys : TaskRunEnds(g)

\* Every run that is in flight returns; shutdown is never requested.
SpecLive ==
    /\ Init
    /\ [][NextLive]_vars
    /\ \A g \in AllKeys : WF_vars(MessageRunEnds(g)) /\ WF_vars(TaskRunEnds(g))

(* ------------- the mailbox calls on a running group --------------------- *)

\* The mailbox calls concern one group at a time.
ApiKeys == {1}

NextApi ==
    \/ \E g \in ApiKeys :
           EnqueueMessageCheck(g) /\ Log("enqueueMessageCheck", g, NULL, NULL)
    \/ \E g \in ApiKeys, t \in {"t1"} :
           EnqueueTask(g, t) /\ Log("enqueueTask", g, t, NULL)
    \/ \E g \in ApiKeys, i \in RunIdx :
           MessageRunSettles(g, i, "success", 0)
           /\ Log("messageRunSettles", g, NULL, "success")
    \/ \E g \in ApiKeys, i \in RunIdx :
           TaskRunSettles(g, i, "success") /\ Log("taskRunSettles", g, NULL, NULL)
    \/ \E g \in ApiKeys, f \in {NULL, "folder"}, c \in ChatJids \cup {NULL} :
           RegisterProcess(g, f, c) /\ Log("registerProcess", g, c, NULL)
    \/ \E g \in ApiKeys, c \in ChatJids \cup {NULL}, ok \in BOOLEAN :
           SendMessage(g, c, ok)
           /\ Log("sendMessage", g, c, SendMessageResult(groups[g], c, ok))
    \/ \E g \in ApiKeys :
           CloseStdin(g) /\ Log("closeStdin", g, NULL, CloseStdinWrites(groups[g]))

SpecApi == Init /\ [][NextApi]_vars


(* ------------- tasks that throw, next to failing message checks -------- *)

TaskOutcomes == {"success", "throw"}

NextTasks ==
    \/ \E g \in GroupKeys :
           EnqueueMessageCheck(g) /\ Log("enqueueMessageCheck", g, NULL, NULL)
    \/ \E g \in GroupKeys, t \in {"t1"} :
           EnqueueTask(g, t) /\ Log("enqueueTask", g, t, NULL)
    \/ \E g \in GroupKeys, i \in RunIdx, o \in {"success", "failure"} :
           MessageRunSettles(g, i, o, MaxFailures)
           /\ Log("messageRunSettles", g, NULL, NULL)
    \/ \E g \in GroupKeys, i \in RunIdx, o \in TaskOutcomes :
           TaskRunSettles(g, i, o)
           /\ Log("taskRunSettles", g, runs[g][i].task, o)
    \/ \E g \in GroupKeys, i \in 1..MaxTimers :
           RetryTimerFires(g, i) /\ Log("retryTimer", g, NULL, NULL)

SpecTasks == Init /\ [][NextTasks]_vars

(* ------------- exits of registered workers, every outcome -------------- *)

\* The groups of this specification: two contend for the slots.
ExitKeys == {1, 2}

NextExit ==
    \/ \E g \in ExitKeys :
           EnqueueMessageCheck(g) /\ Log("enqueueMessageCheck", g, NULL, NULL)
    \/ \E g \in ExitKeys, t \in {"t1"} :
           EnqueueTask(g, t) /\ Log("enqueueTask", g, t, NULL)
    \/ \E g \in ExitKeys :
           RegisterProcess(g, "folder", "c1") /\ Log("registerProcess", g, NULL, NULL)
    \/ \E g \in ExitKeys, i \in RunIdx, o \in Outcomes :
           MessageRunSettles(g, i, o, MaxFailures)
           /\ Log("messageRunSettles", g, groups[g].process, o)
    \/ \E g \in ExitKeys, i \in RunIdx, o \in TaskOutcomes :
           TaskRunSettles(g, i, o)
           /\ Log("taskRunSettles", g, groups[g].process, o)
    \/ \E g \in ExitKeys, i \in 1..MaxTimers :
           RetryTimerFires(g, i) /\ Log("retryTimer", g, NULL, NULL)
    \/ Shutdown /\ Log("shutdown", NULL, NULL, NULL)

SpecExit == Init /\ [][NextExit]_vars

(* ------------- shutdown with registered workers in flight -------------- *)

NextShutdown ==
    \/ \E g \in GroupKeys :
           EnqueueMessageCheck(g) /\ Log("enqueueMessageCheck", g, NULL, NULL)
    \/ \E g \in GroupKeys, t \in {"t1"} :
           EnqueueTask(g, t) /\ Log("enqueueTask", g, t, NULL)
    \/ \E g \in GroupKeys :
           RegisterProcess(g, "folder", "c1") /\ Log("registerProcess", g, NULL, NULL)
    \/ \E g \in GroupKeys, i \in RunIdx :
           MessageRunSettles(g, i, "success", 0)
           /\ Log("messageRunSettles", g, NULL, "success")
    \/ \E g \in GroupKeys, i \in RunIdx :
           TaskRunSettles(g, i, "success") /\ Log("taskRunSettles", g, NULL, NULL)
    \/ Shutdown /\ Log("shutdown", NULL, NULL, NULL)

SpecShutdown == Init /\ [][NextShutdown]_vars

(* ------------- the router driving the scheduler ------------------------ *)

\* Which mailbox writes of a poll-cycle step succeed, per folder.
WriteOks == [RouterFolders -> BOOLEAN]

\* What the log keeps of a run of processGroupMessages that returns: its
\* locals, the retryCount of its group, the cursor of its group when runAgent returned, and that cursor (in
\* memory and persisted) when processGroupMessages returns.
ExitRecord(g, i, output, q) ==
    [prev |-> runs[g][i].prev, handed |-> runs[g][i].handed,
     sent |-> runs[g][i].sent,
     failed |-> (output = "error" \/ runs[g][i].err),
     retryCount |-> groups[g].retryCount,
     before |-> lastAgentTimestampByFolder[g],
     cursor |-> q.lastAgentTimestampByFolder[g],
     saved |-> q.db.last_agent_timestamp[g]]

\* What the log keeps of a poll step: the batch it fetched (start) and the
\* passes of the folder loop it made, in order.
PollRecord(w) ==
    [fetched |-> Timestamps(GetNewMessages(stored, DOMAIN RegisteredGroups,
                                           lastTimestamp).messages),
     newTimestamp |-> GetNewMessages(stored, DOMAIN RegisteredGroups,
                                     lastTimestamp).newTimestamp,
     decisions |-> PollCycle(Q, w).q.decisions]

ResumeRecord(w) ==
    [decisions |-> PollFolders(Q, pollQueue.rest, w).q.decisions]

NextRouter ==
    \/ \E j \in DOMAIN RegisteredGroups, trigger \in BOOLEAN :
           /\ trigger => NeedsTrigger(RegisteredGroups[j])
           /\ StoreMessage(j, trigger)
           /\ Log("storeMessage", RegisteredGroups[j].folder, j, NULL)
    \/ \E w \in WriteOks : PollStart(w) /\ Log("poll", NULL, PollRecord(w), NULL)
    \/ \E w \in WriteOks :
           PollResume(w) /\ Log("pollResume", NULL, ResumeRecord(w), NULL)
    \/ \E g \in RouterFolders, i \in RunIdx :
           RunResolves(g, i) /\ Log("runResolves", g, NULL, "success")
    \/ \E g \in RouterFolders, i \in RunIdx :
           AgentSpawns(g, i) /\ Log("agentSpawns", g, NULL, NULL)
    \/ \E g \in RouterFolders, i \in RunIdx, r \in {NULL, "text"},
          st \in {"success", "error"}, ok \in BOOLEAN :
           AgentOutput(g, i, r, st, ok, MaxFailures)
           /\ Log("agentOutput", g, NULL, NULL)
    \/ \E g \in RouterFolders, i \in RunIdx, out \in {"success", "error"} :
           AgentExits(g, i, out, MaxFailures)
           /\ Log("agentExits", g,
                  ExitRecord(g, i, out, ProcessGroupMessagesEnd(Q, g, i, out)[1]),
                  ProcessGroupMessagesEnd(Q, g, i, out)[2])
    \/ \E g \in RouterFolders, i \in 1..MaxTimers :
           RetryTimerFires(g, i) /\ Log("retryTimer", g, NULL, NULL)

SpecRouter == InitRouter /\ [][NextRouter]_vars

(* ------------- the router with crashes and restarts --------------------- *)

\* The faults of this specification are the crashes: the runs succeed.
NextRecovery ==
    \/ \E j \in DOMAIN RegisteredGroups, trigger \in BOOLEAN :
           /\ trigger => NeedsTrigger(RegisteredGroups[j])
           /\ StoreMessage(j, trigger)
           /\ Log("storeMessage", RegisteredGroups[j].folder, j, NULL)
    \/ \E w \in WriteOks : PollStart(w) /\ Log("poll", NULL, PollRecord(w), NULL)
    \/ \E w \in WriteOks :
           PollResume(w) /\ Log("pollResume", NULL, ResumeRecord(w), NULL)
    \/ \E g \in RouterFolders, i \in RunIdx :
           RunResolves(g, i) /\ Log("runResolves", g, NULL, "success")
    \/ \E g \in RouterFolders, i \in RunIdx :
           AgentSpawns(g, i) /\ Log("agentSpawns", g, NULL, NULL)
    \/ \E g \in RouterFolders, i \in RunIdx :
           AgentExits(g, i, "success", 0) /\ Log("agentExits", g, NULL, TRUE)
    \/ Crash(MaxFailures) /\ Log("crash", NULL, NULL, NULL)
    \/ CrashInPoll(MaxFailures) /\ Log("crash", NULL, "poll", NULL)
    \/ Recover /\ Log("recover", NULL, NULL, NULL)

SpecRecovery == InitRouter /\ [][NextRecovery]_vars

(* ------------- restarts over a damaged cursor row ----------------------- *)

\* What a restart is logged with: the store as loadState finds it.
LoadRecord == [db |-> db]

\* The mailbox does not fail in this specification.
AllWritesOk == [f \in RouterFolders |-> TRUE]

NextCorrupt ==
    \/ \E j \in DOMAIN RegisteredGroups :
           /\ StoreMessage(j, NeedsTrigger(RegisteredGroups[j]))
           /\ Log("storeMessage", RegisteredGroups[j].folder, j, NULL)
    \/ PollStart(AllWritesOk) /\ Log("poll", NULL, NULL, NULL)
    \/ PollResume(AllWritesOk) /\ Log("pollResume", NULL, NULL, NULL)
    \/ \E g \in RouterFolders, i \in RunIdx :
           RunResolves(g, i) /\ Log("runResolves", g, NULL, "success")
    \/ \E g \in RouterFolders, i \in RunIdx :
           AgentSpawns(g, i) /\ Log("agentSpawns", g, NULL, NULL)
    \/ \E g \in RouterFolders, i \in RunIdx :
           AgentExits(g, i, "success", 0) /\ Log("agentExits", g, NULL, TRUE)
    \/ CorruptCursorRow /\ Log("corruptCursorRow", NULL, NULL, NULL)
    \/ Crash(MaxFailures) /\ Log("loadState", NULL, LoadRecord, NULL)
    \/ Recover /\ Log("recover", NULL, NULL, NULL)

SpecCorrupt == InitRouter /\ [][NextCorrupt]_vars

(* ------------- the WebChannel and its listeners ------------------------ *)

\* What an emitting call is logged with: the channel as the call found it
\* and the listeners that throw when called.
EmitArg(throwers) ==
    [connected |-> web.connected, listeners |-> web.listeners,
     throwers |-> throwers]

\* A listener throws only when it is called.
Subscribed ==
    IF web.connected THEN {l \in ListenerIds : Includes(web.listeners, l)} ELSE {}

NextWeb ==
    \/ WebConnect /\ Log("connect", NULL, NULL, NULL)
    \/ WebDisconnect /\ Log("disconnect", NULL, NULL, NULL)
    \/ \E l \in ListenerIds : WebSubscribe(l) /\ Log("subscribe", NULL, l, NULL)
    \/ \E l \in ListenerIds :
          WebUnsubscribe(l) /\ Log("unsubscribe", NULL, l, NULL)
    \/ \E throwers \in SUBSET Subscribed :
          /\ WebIngestUserMessage(throwers)
          /\ Log("ingestUserMessage", NULL, EmitArg(throwers), "message")
    \/ \E throwers \in SUBSET Subscribed :
          /\ WebSendMessage(throwers)
          /\ Log("webSendMessage", NULL, EmitArg(throwers), "message")
    \/ \E throwers \in SUBSET Subscribed :
          /\ WebSetTyping(throwers)
          /\ Log("setTyping", NULL, EmitArg(throwers), "typing")

SpecWeb == Init /\ [][NextWeb]_vars

(* ------------------------------ claims -------------------------------- *)

SchedVars == <<groups, activeCount, waitingGroups, runs, timers>>

Settles == {"messageRunSettles", "taskRunSettles"}

ActiveGroups == {g \in AllKeys : groups[g].active}

HasPending(g) == groups[g].pendingMessages \/ Len(groups[g].pendingTasks) > 0

\* Number of occurrences of x in the sequence s.
Count(s, x) == Cardinality({i \in 1..Len(s) : s[i] = x})

\* C1: in every reachable state the number of groups whose active flag is
\* true is at most MAX_CONCURRENT_AGENTS.
C1_ActiveWithinCeiling == Cardinality(ActiveGroups) <= MAX_CONCURRENT_AGENTS

\* C1 witness: the ceiling is reached and a further group, refused a slot,
\* is queued on the waiting list.
C1_Witness ==
    /\ Cardinality(ActiveGroups) = MAX_CONCURRENT_AGENTS
    /\ \E g \in AllKeys : ~groups[g].active /\ Includes(waitingGroups, g)

\* C2: a group has exactly one run in flight while its active flag is true and
\* none while it is false: no run is ever started for an active group.
C2_OneRunPerGroup ==
    \A g \in AllKeys : Len(runs[g]) = IF groups[g].active THEN 1 ELSE 0

\* C2 witness: a message check and a task were requested for a group while
\* its run was in flight, and both were queued instead of started.
C2_Witness ==
    \E g \in AllKeys :
        /\ Len(runs[g]) = 1
        /\ groups[g].pendingMessages
        /\ Len(groups[g].pendingTasks) > 0

NoDuplicatePending ==
    \A g \in AllKeys, t \in TaskIds : Count(groups[g].pendingTasks, t) <= 1

\* C3: pendingTasks never holds one id twice; enqueueTask for an id that is
\* still pending changes nothing; and every entry that leaves the pending
\* queue starts exactly one run of that id.
C3_TaskDedup ==
    /\ []NoDuplicatePending
    /\ [][/\ (last'.op = "enqueueTask" /\ last'.ret = "skipped")
              => UNCHANGED SchedVars
          /\ \A g \in AllKeys :
                groups'[g].pendingTasks # groups[g].pendingTasks
                => \A t \in TaskIds :
                     Count(groups'[g].pendingTasks, t)
                         < Count(groups[g].pendingTasks, t)
                     => /\ Count(groups'[g].pendingTasks, t)
                             = Count(groups[g].pendingTasks, t) - 1
                        /\ runs'[g] = <<NewRun("task", t)>>]_vars

\* C3 witness: enqueueTask was called for an id that was still pending.
C3_Witness ==
    /\ last.op = "enqueueTask"
    /\ last.ret = "skipped"
    /\ \E g \in AllKeys : Includes(groups[g].pendingTasks, "t1")

\* C9: when a run of g completes while g has both a pending task and a pending
\* message check, the oldest task is started and pendingMessages stays set;
\* no message-check run of g is in flight together with a task run; and when
\* the task run completes with pendingMessages set and no further task, the
\* message check is started.
C9_TaskBeforeMessage ==
    [][\A g \in AllKeys :
         LET st == groups[g] IN
         /\ (/\ last'.op \in Settles /\ last'.g = g /\ ~shuttingDown
             /\ Len(st.pendingTasks) > 0 /\ st.pendingMessages)
            => /\ runs'[g] = <<NewRun("task", Head(st.pendingTasks))>>
               /\ groups'[g].pendingTasks = Tail(st.pendingTasks)
               /\ groups'[g].pendingMessages
         /\ (/\ last'.op = "taskRunSettles" /\ last'.g = g /\ ~shuttingDown
             /\ Len(st.pendingTasks) = 0 /\ st.pendingMessages)
            => /\ runs'[g] = <<NewRun("messages", NULL)>>
               /\ ~groups'[g].pendingMessages
         /\ (\E i \in 1..Len(runs'[g]) : runs'[g][i].kind = "task")
            => \A i \in 1..Len(runs'[g]) : runs'[g][i].kind = "task"]_vars

\* C9 witness: a run of g has just completed and found both kinds of work
\* pending: the task is running and the message check is still owed.
C9_Witness ==
    /\ last.op \in Settles
    /\ last.g \in AllKeys
    /\ runs[last.g] = <<NewRun("task", "t1")>>
    /\ groups[last.g].pendingMessages

\* C10: once shutdown was called it stays requested, enqueueMessageCheck and
\* enqueueTask change no scheduler state, no run is started and no group goes
\* from inactive to active, whatever handler runs (enqueue, the drain after a
\* completion, a retry timer).
C10_ShutdownStopsAdmission ==
    [][shuttingDown =>
         /\ shuttingDown'
         /\ last'.op \in {"enqueueMessageCheck", "enqueueTask"}
                => UNCHANGED SchedVars
         /\ \A g \in AllKeys :
               /\ groups'[g].active => groups[g].active
               /\ Len(runs'[g]) <= Len(runs[g])
               /\ \A i \in 1..Len(runs'[g]) :
                     \E j \in 1..Len(runs[g]) : runs'[g][i] = runs[g][j]]_vars

\* C10 witness: a retry timer fired after shutdown while a slot was free and
\* started nothing.
C10_Witness ==
    /\ shuttingDown
    /\ last.op = "retryTimer"
    /\ activeCount < MAX_CONCURRENT_AGENTS
    /\ \A g \in AllKeys : runs[g] = <<>>

\* The delays of the backoff schedule, in milliseconds.
BackoffDelay == <<5000, 10000, 20000, 40000, 80000>>

\* C6: the k-th consecutive failed message-check run of a group (k = 1..5)
\* sets retryCount to k and schedules one retry timer of 5000 * 2^(k-1) ms;
\* the 6th schedules none and resets retryCount to 0.
C6_BackoffSchedule ==
    [][\A g \in AllKeys :
         (last'.op = "messageRunSettles" /\ last'.g = g /\ last'.ret # "success")
         => LET k == streak'[g] IN
            /\ k = streak[g] + 1
            /\ k \in 1..5 => /\ groups'[g].retryCount = k
                             /\ timers'[g] = Append(timers[g], BackoffDelay[k])
            /\ k = 6 => /\ groups'[g].retryCount = 0
                        /\ timers'[g] = timers[g]]_vars

\* C6 witness: the 6th consecutive failure has happened: the budget is spent,
\* retryCount is back at 0 and no timer is pending.
C6_Witness ==
    /\ last.op = "messageRunSettles"
    /\ last.ret # "success"
    /\ streak[1] = 6
    /\ groups[1].retryCount = 0
    /\ timers[1] = <<>>

\* s is t with some elements removed from its front.
IsSuffix(s, t) ==
    /\ Len(s) <= Len(t)
    /\ \A i \in 1..Len(s) : s[i] = t[Len(t) - Len(s) + i]

\* C7: at the ceiling, enqueueMessageCheck for an idle group starts nothing
\* and puts the group at the end of the waiting list (once); the list only
\* grows at its end and shrinks at its front; and when a run completes whose
\* group has no pending work, the first group of the waiting list is started.
C7_CapacityAndFifo ==
    [][/\ \A g \in AllKeys :
            (/\ last'.op = "enqueueMessageCheck" /\ last'.g = g
             /\ ~groups[g].active /\ activeCount = MAX_CONCURRENT_AGENTS)
            => /\ runs' = runs
               /\ activeCount' = activeCount
               /\ groups'[g].pendingMessages
               /\ waitingGroups' = IF Includes(waitingGroups, g)
                                   THEN waitingGroups
                                   ELSE Append(waitingGroups, g)
       /\ \/ IsSuffix(waitingGroups', waitingGroups)
          \/ \E g \in AllKeys : waitingGroups' = Append(waitingGroups, g)
       /\ \A g \in AllKeys :
            (/\ last'.op \in Settles /\ last'.g = g
             /\ ~HasPending(g) /\ waitingGroups # <<>>)
            => /\ Len(runs'[Head(waitingGroups)]) = 1
               /\ waitingGroups' = Tail(waitingGroups)
               /\ \A h \in AllKeys :
                     Includes(waitingGroups', h) => runs'[h] = <<>>]_vars

\* C7 witness: a run completed with nothing pending for its group, a group that
\* had been waiting is running and a later arrival is still waiting.
C7_Witness ==
    /\ last.op \in Settles
    /\ runs[last.g] = <<>>
    /\ waitingGroups # <<>>
    /\ \E h \in AllKeys : h # last.g /\ Len(runs[h]) = 1

\* C8: sendMessage returns true only for an active group with a registered
\* folder and no chat conflict, and returns false when the group is not
\* active, has no folder, or the given chat differs from the bound one.
C8_SendMessageResult ==
    (last.op = "sendMessage") =>
        LET st == groups[last.g]
            conflict == /\ last.arg # NULL
                        /\ st.activeChatJid # NULL
                        /\ st.activeChatJid # last.arg
        IN  /\ last.ret = TRUE
                => st.active /\ st.groupFolder # NULL /\ ~conflict
            /\ (~st.active \/ st.groupFolder = NULL \/ conflict)
                => last.ret = FALSE

\* C8 witness: a follow-up for the bound chat was accepted.
C8_Witness ==
    /\ last.op = "sendMessage"
    /\ last.ret = TRUE
    /\ last.arg = "c1"
    /\ groups[last.g].activeChatJid = "c1"

\* C8 second case: a follow-up for another chat than the bound one was refused.
C8_WitnessConflict ==
    /\ last.op = "sendMessage"
    /\ last.ret = FALSE
    /\ last.arg = "c2"
    /\ groups[last.g].active
    /\ groups[last.g].groupFolder # NULL
    /\ groups[last.g].activeChatJid = "c1"

\* A step in which processGroupMessages for g passes its dispatch point.
DispatchedRun(g) ==
    /\ runs'[g] # runs[g]
    /\ Len(runs'[g]) > 0
    /\ runs'[g][Len(runs'[g])].stage = "typing"

\* A step in which a dispatched run of g returns after an error.
FailedExit(g) == last'.op = "agentExits" /\ last'.g = g /\ last'.arg.failed

\* C4: rollback law. The value a run remembers at dispatch is the cursor of its
\* group just before the run advances it; when the run ends in error (terminal
\* status or streamed status) without any output delivered to the user, the
\* cursor is set back to exactly that value, whatever pipe-ins made of it in
\* between, the value is persisted, and the scheduler is told the run failed
\* (it schedules a retry).
C4_RollbackLaw ==
    [][\A g \in RouterFolders :
         /\ DispatchedRun(g) =>
               runs'[g][Len(runs'[g])].prev =
                   IF last'.op = "agentExits" /\ last'.g = g
                   THEN last'.arg.cursor
                   ELSE lastAgentTimestampByFolder[g]
         /\ (FailedExit(g) /\ ~last'.arg.sent) =>
               /\ last'.arg.cursor = last'.arg.prev
               /\ last'.arg.saved = last'.arg.prev
               /\ last'.ret = FALSE
               /\ groups[g].retryCount < MAX_RETRIES =>
                     /\ groups'[g].retryCount = groups[g].retryCount + 1
                     /\ Len(timers'[g]) = Len(timers[g]) + 1
      ]_vars

\* C4 is exercised: a run that failed without output was rolled back to its
\* pre-dispatch cursor after a pipe-in had advanced the cursor past the value
\* the dispatch had set.
C4_Witness ==
    /\ last.op = "agentExits"
    /\ last.arg.failed /\ ~last.arg.sent
    /\ last.ret = FALSE
    /\ last.arg.handed > last.arg.prev
    /\ last.arg.before > last.arg.handed
    /\ lastAgentTimestampByFolder[last.g] = last.arg.prev

\* C5: no-rollback law. When a run ends in error after an output was delivered
\* to the user, the return of processGroupMessages leaves the cursor of its
\* group where it was: at the advanced value, never below what the dispatch
\* set and above the pre-dispatch value.
C5_NoRollbackLaw ==
    [][\A g \in RouterFolders :
         (FailedExit(g) /\ last'.arg.sent) =>
            /\ last'.arg.cursor = lastAgentTimestampByFolder[g]
            /\ last'.arg.saved = db.last_agent_timestamp[g]
            /\ last'.arg.cursor >= last'.arg.handed
            /\ last'.arg.cursor > last'.arg.prev
      ]_vars

\* C5 is exercised: a run failed after delivering output and its cursor stays
\* at the value the dispatch set.
C5_Witness ==
    /\ last.op = "agentExits"
    /\ last.arg.failed /\ last.arg.sent
    /\ lastAgentTimestampByFolder[last.g] = last.arg.handed
    /\ last.arg.handed > last.arg.prev

\* C11: shutdown sets the shutting-down flag and changes nothing else of the
\* scheduler (active flags, process handles, pending queues, retryCount, the
\* waiting list, activeCount, the runs in flight); a run in flight at shutdown
\* still completes: its completion clears the group's active flag and process
\* handle and decrements activeCount.
C11_ShutdownLeavesRuns ==
    [][/\ last'.op = "shutdown" =>
             /\ shuttingDown'
             /\ UNCHANGED SchedVars
       /\ \A g \in AllKeys :
             (shuttingDown /\ last'.op \in Settles /\ last'.g = g) =>
                /\ activeCount' = activeCount - 1
                /\ ~groups'[g].active
                /\ groups'[g].process = NULL
                /\ runs'[g] = <<>>]_vars

\* C11 is exercised: shutdown was called with a registered worker running, a
\* message check pending and a group on the waiting list, and all are still
\* there.
C11_Witness ==
    /\ last.op = "shutdown"
    /\ shuttingDown
    /\ activeCount = MAX_CONCURRENT_AGENTS
    /\ waitingGroups # <<>>
    /\ \E g \in AllKeys :
          /\ groups[g].active /\ groups[g].process # NULL
          /\ Len(runs[g]) = 1

\* C11, completion: a run that was in flight at shutdown has completed.
C11_WitnessCompletion ==
    /\ shuttingDown
    /\ last.op \in Settles
    /\ activeCount = 0

\* C12: in every reachable state the handed cursor of every group is at most
\* the global last-seen watermark.
C12_CursorWithinWatermark ==
    \A g \in RouterFolders : lastAgentTimestampByFolder[g] <= lastTimestamp

\* C13: whenever a message-check run has passed its dispatch point (it awaits
\* the typing indicator, or its worker has been spawned), the persisted cursor
\* of its group already covers the batch of the run: the store was written
\* before the worker was started.
C13_PersistedBeforeDispatch ==
    \A g \in RouterFolders : \A i \in 1..Len(runs[g]) :
        runs[g][i].stage \in {"typing", "agent"} =>
            /\ db.last_agent_timestamp[g] >= runs[g][i].handed
            /\ db.last_agent_timestamp[g] = lastAgentTimestampByFolder[g]

\* C13 is exercised: a worker runs on a batch of two messages and the
\* persisted cursor is at the second.
C13_Witness ==
    \E g \in RouterFolders :
        /\ Len(runs[g]) = 1
        /\ runs[g][1].stage = "agent"
        /\ runs[g][1].handed = runs[g][1].prev + 2
        /\ db.last_agent_timestamp[g] = runs[g][1].handed

\* The stored messages of the chats of folder g, by timestamp.
StoredFor(g) ==
    Timestamps(GetMessagesSinceForJids(stored, GetJidsForFolder(g), 0))

\* The messages of folder g that some worker was given, in a prompt or by
\* pipe-in.
HandedTo(g) == UNION {handoffs[g][k].msgs : k \in 1..Len(handoffs[g])}

\* C14: after a restart, every stored message that no worker was ever given
\* counts as not yet handed: once startup recovery has run, it is newer than
\* the cursor of its group or in the prompt of a run that recovery started.
C14_CrashBeforeDispatchRecoverable ==
    last.op = "recover" =>
        \A g \in RouterFolders : \A t \in StoredFor(g) \ HandedTo(g) :
            \/ t > lastAgentTimestampByFolder[g]
            \/ \E i \in 1..Len(runs[g]) : t \in runs[g][i].prompt

\* The messages of folder g that are newer than its persisted cursor.
PendingFor(g) ==
    GetMessagesSinceForJids(stored, GetJidsForFolder(g),
                            db.last_agent_timestamp[g])

\* C15: on restart recoverPendingMessages calls enqueueMessageCheck for
\* exactly the registered folders with stored messages newer than their
\* persisted cursor (the folder is started, or marked pending on the waiting
\* list); a run it starts has all those messages in its prompt, unless the
\* folder requires a trigger and none of them has it; for a folder that has to
\* wait the cursor stays where it was, so the messages are still owed.
C15_StartupRecovery ==
    [][last'.op = "recover" =>
         \A g \in RouterFolders :
            /\ Len(PendingFor(g)) > 0
                  <=> (groups'[g].active \/ groups'[g].pendingMessages)
            /\ groups'[g].active =>
                  /\ Len(runs'[g]) = 1
                  /\ runs'[g][1].stage = "typing" =>
                        runs'[g][1].prompt = Timestamps(PendingFor(g))
                  /\ runs'[g][1].stage # "typing" =>
                        /\ NeedsTrigger(GetFolderGroup(g))
                        /\ ~HasTrigger(PendingFor(g))
            /\ groups'[g].pendingMessages =>
                  /\ Includes(waitingGroups', g)
                  /\ lastAgentTimestampByFolder'[g] = db.last_agent_timestamp[g]
      ]_vars

\* C15 is exercised: after a restart, recovery started a run on a message that
\* lies at or below the persisted watermark and was never handed to a worker,
\* and left alone a folder whose messages were all handed.
C15_Witness ==
    /\ last.op = "recover"
    /\ \E g \in RouterFolders :
          /\ Len(runs[g]) = 1
          /\ runs[g][1].stage = "typing"
          /\ \E t \in runs[g][1].prompt :
                t <= lastTimestamp /\ t \notin HandedTo(g)
    /\ \E h \in RouterFolders :
          /\ StoredFor(h) # {}
          /\ ~groups[h].active /\ ~groups[h].pendingMessages

\* The hand-offs of folder g: the entries of its history that gave messages
\* to a worker.
IsHandoff(g, k) == handoffs[g][k].kind \in {"prompt", "pipe"}

\* The run that received hand-off k delivered output to the user: an output
\* entry lies between the prompt of that run and the next prompt.
Delivered(g, k) ==
    \E o \in 1..Len(handoffs[g]) :
        /\ handoffs[g][o].kind = "output"
        /\ \A p \in 1..Len(handoffs[g]) :
              handoffs[g][p].kind = "prompt" => ((p <= k) <=> (p <= o))

\* C16: a stored message is handed to a worker a second time only after a
\* rollback of the cursor of its group in between, and never when the run
\* that received it first delivered output to the user.
C16_NoDuplicateHandoff ==
    \A g \in RouterFolders : \A i, j \in 1..Len(handoffs[g]) :
        (/\ i < j /\ IsHandoff(g, i) /\ IsHandoff(g, j)
         /\ handoffs[g][i].msgs \cap handoffs[g][j].msgs # {})
        => /\ \E k \in (i + 1)..(j - 1) : handoffs[g][k].kind = "rollback"
           /\ ~Delivered(g, i)


\* C17: the messages of one group are handed to workers in non-decreasing
\* timestamp order over the whole execution: no hand-off contains a message
\* older than a message of an earlier hand-off of the group.
C17_HandoffOrder ==
    \A g \in RouterFolders : \A i, j \in 1..Len(handoffs[g]) :
        (i < j /\ IsHandoff(g, i) /\ IsHandoff(g, j))
        => \A a \in handoffs[g][i].msgs, b \in handoffs[g][j].msgs : a <= b

\* The invocations of task t that group g still owes, in the state given by
\* the group states gs and the runs rs: its entries in the pending queue and
\* its runs in flight.
Owed(gs, rs, g, t) ==
    Count(gs[g].pendingTasks, t)
      + Cardinality({i \in 1..Len(rs[g]) :
                        rs[g][i].kind = "task" /\ rs[g][i].task = t})

\* C18: when a task's action settles, also by throwing, the task is neither
\* re-run nor re-queued (the group owes one invocation less), retryCount is
\* unchanged and no retry timer is scheduled; an enqueueTask call adds at most
\* one owed invocation and no other step adds any, so every accepted task is
\* invoked at most once.
C18_TaskNeverRetried ==
    [][\A g \in GroupKeys :
         \/ /\ groups'[g].pendingTasks = groups[g].pendingTasks
            /\ runs'[g] = runs[g]
            /\ ~(last'.op = "taskRunSettles" /\ last'.g = g)
         \/ \A t \in TaskIds :
               IF last'.g = g /\ last'.arg = t /\ last'.op = "taskRunSettles"
               THEN /\ Owed(groups', runs', g, t) = Owed(groups, runs, g, t) - 1
                    /\ groups'[g].retryCount = groups[g].retryCount
                    /\ timers' = timers
               ELSE IF last'.g = g /\ last'.arg = t /\ last'.op = "enqueueTask"
               THEN Owed(groups', runs', g, t) <= Owed(groups, runs, g, t) + 1
               ELSE Owed(groups', runs', g, t) = Owed(groups, runs, g, t)
      ]_vars

\* C18 is exercised: a task threw in a group whose retryCount was not zero;
\* nothing of it is owed any more, retryCount is still not zero and the only
\* timer is the one of the failed message check.
C18_Witness ==
    /\ last.op = "taskRunSettles"
    /\ last.ret = "throw"
    /\ Owed(groups, runs, last.g, last.arg) = 0
    /\ groups[last.g].retryCount = 1
    /\ Len(timers[last.g]) = 1

\* C19: once the retry budget of a group is exhausted (the 6th consecutive
\* failure reset retryCount to 0) and the group is idle, its next run starts
\* only in a call of enqueueMessageCheck or enqueueTask made from outside,
\* never in a retry timer.
C19_NoRunAfterDrop ==
    [][\A g \in AllKeys :
         (/\ streak[g] = MAX_RETRIES + 1
          /\ groups[g].retryCount = 0
          /\ runs[g] = <<>>
          /\ runs'[g] # <<>>)
         => last'.op \in {"enqueueMessageCheck", "enqueueTask"}]_vars

EmitOps == {"ingestUserMessage", "webSendMessage", "setTyping"}

\* C20: a call of ingestUserMessage, sendMessage or setTyping on a connected
\* channel calls every listener subscribed at that moment exactly once with
\* the event, whichever listeners throw; no other step calls a listener, so
\* a listener that is not subscribed receives nothing; the unsubscribe
\* function removes its listener, and disconnect removes them all.
C20_WebDelivery ==
    [][/\ \A l \in ListenerIds :
            IF /\ last'.op \in EmitOps
               /\ web.connected
               /\ Includes(web.listeners, l)
            THEN web'.events[l] = Append(web.events[l], last'.ret)
            ELSE web'.events[l] = web.events[l]
       /\ last'.op = "unsubscribe" => ~Includes(web'.listeners, last'.arg)
       /\ last'.op = "disconnect" =>
             ~web'.connected /\ web'.listeners = <<>>]_vars

\* An emitting call found two listeners on a connected channel, the first of
\* them threw, and the second has the event.
C20_Witness ==
    /\ last.op \in EmitOps
    /\ last.arg.connected
    /\ Len(last.arg.listeners) = 2
    /\ last.arg.listeners[1] \in last.arg.throwers
    /\ web.events[last.arg.listeners[2]] # <<>>

\* A listener that unsubscribed earlier is passed over by a later call that
\* delivers to another listener.
C20_WitnessUnsubscribed ==
    /\ last.op \in EmitOps
    /\ last.arg.connected
    /\ \E l \in web.closures :
          /\ ~Includes(last.arg.listeners, l)
          /\ web.events[l] = <<>>
    /\ \E l \in ListenerIds : web.events[l] # <<>>

Max(S) == CHOOSE x \in S : \A y \in S : y <= x

\* The passes of the folder loop a poll step made.
Decisions(l) == {l.arg.decisions[k] : k \in 1..Len(l.arg.decisions)}

PollOps == {"poll", "pollResume"}

\* C21: a poll cycle that fetched messages sets the watermark to the
\* timestamp returned with the batch and saves it before the folder loop:
\* every per-group decision of the cycle, also one taken after the loop was
\* suspended, finds the watermark advanced in memory and in the store.
C21_WatermarkBeforeDecisions ==
    [][/\ last'.op = "poll" =>
            /\ last'.arg.fetched # {}
            /\ last'.arg.newTimestamp = Max(last'.arg.fetched)
            /\ lastTimestamp' = last'.arg.newTimestamp
            /\ db'.last_timestamp = last'.arg.newTimestamp
            /\ \A d \in Decisions(last') :
                  /\ d.pre.lastTimestamp = last'.arg.newTimestamp
                  /\ d.pre.db.last_timestamp = last'.arg.newTimestamp
       /\ last'.op = "pollResume" =>
            \A d \in Decisions(last') :
                  /\ d.pre.lastTimestamp = lastTimestamp
                  /\ d.pre.db.last_timestamp = lastTimestamp
                  /\ db.last_timestamp = lastTimestamp]_vars

\* A cycle fetched messages, moved the watermark and took a decision that
\* acts on a group.
C21_Witness ==
    /\ last.op = "poll"
    /\ last.arg.newTimestamp > 1
    /\ \E d \in Decisions(last) :
          d.kind \in {"pipe", "enqueue"} /\ d.pre.lastTimestamp = lastTimestamp

\* The fetched batch of a pass holds no trigger message.
NoTriggerIn(d) == \A t \in d.fetched : ~stored[t].trigger

\* The stored messages of a folder newer than a cursor value.
NewerThan(folder, cursor) ==
    Timestamps(GetMessagesSinceForJids(stored, GetJidsForFolder(folder), cursor))

\* C22: in a poll cycle, a pass of the folder loop for a non-main group that
\* requires a trigger, whose fetched batch holds no trigger message, is a
\* no-op: no pipe-in, no enqueueMessageCheck, cursor and scheduler state as
\* the pass found them, so every message that was newer than the cursor is
\* still newer. A cycle made only of such passes changes nothing but the
\* watermark.
C22_TriggerGate ==
    [][last'.op \in PollOps =>
         /\ \A d \in Decisions(last') :
               (NeedsTrigger(GetFolderGroup(d.folder)) /\ NoTriggerIn(d)) =>
                  /\ d.kind = "skip"
                  /\ d.post = d.pre
                  /\ NewerThan(d.folder, d.post.cursor[d.folder])
                        = NewerThan(d.folder, d.pre.cursor[d.folder])
         /\ (\A d \in Decisions(last') : d.kind = "skip") =>
               /\ UNCHANGED <<groups, activeCount, waitingGroups, runs, timers>>
               /\ UNCHANGED <<lastAgentTimestampByFolder, handoffs>>
               /\ db'.last_agent_timestamp = db.last_agent_timestamp]_vars

\* A cycle passed over a trigger-required group whose fetched messages hold no
\* trigger; they are still newer than the group's cursor.
C22_Witness ==
    /\ last.op = "poll"
    /\ \E d \in Decisions(last) :
          /\ d.kind = "skip"
          /\ d.fetched # {}
          /\ d.fetched \subseteq NewerThan(d.folder,
                                           lastAgentTimestampByFolder[d.folder])

\* No trigger among the stored messages of a folder newer than a cursor.
NoTriggerSince(folder, cursor) ==
    \A t \in NewerThan(folder, cursor) : ~stored[t].trigger

Dispatched(run) == run.stage \in {"typing", "agent"}

AllResolved(rs) == \A i \in 1..Len(rs) : rs[i].stage = "resolved"

\* C23: for a non-main group that requires a trigger, a run that is
\* dispatched (a worker is about to be or has been spawned for it) has a
\* trigger message in its prompt; a message-check run started while no
\* message newer than the cursor is a trigger (by startup recovery or by the
\* poll loop) returns before dispatch with the cursor and its saved copy
\* unchanged, and when it settles it reports success: retryCount is 0 and no
\* retry timer is set.
C23_NoDispatchWithoutTrigger ==
    [][\A g \in RouterFolders : NeedsTrigger(GetFolderGroup(g)) =>
         /\ \A i \in 1..Len(runs'[g]) :
               Dispatched(runs'[g][i]) =>
                  \E t \in runs'[g][i].prompt :
                      stored'[t].trigger /\ t > runs'[g][i].prev
         /\ (last'.op = "recover"
              /\ NoTriggerSince(g, lastAgentTimestampByFolder[g])) =>
               /\ AllResolved(runs'[g])
               /\ lastAgentTimestampByFolder'[g] = lastAgentTimestampByFolder[g]
               /\ db'.last_agent_timestamp[g] = db.last_agent_timestamp[g]
               /\ handoffs'[g] = handoffs[g]
         /\ last'.op \in PollOps =>
               \A d \in Decisions(last') :
                  (/\ d.folder = g
                   /\ d.kind = "enqueue"
                   /\ NoTriggerSince(g, d.pre.cursor[g])) =>
                     /\ d.post.cursor[g] = d.pre.cursor[g]
                     /\ d.post.db = d.pre.db
                     /\ \A i \in 1..Len(d.post.runs[g]) :
                           ~Dispatched(d.post.runs[g][i])
                              \/ d.post.runs[g][i] = d.pre.runs[g][i]
         /\ (last'.op = "runResolves" /\ last'.g = g) =>
               /\ last'.ret = "success"
               /\ groups'[g].retryCount = 0
               /\ timers'[g] = timers[g]
               /\ handoffs'[g] = handoffs[g]]_vars

\* A message-check run of a trigger-required group returned at the trigger
\* check: messages newer than the cursor exist, none is a trigger, and the
\* invocation is about to report success without a worker.
C23_Witness ==
    \E g \in RouterFolders :
        /\ NeedsTrigger(GetFolderGroup(g))
        /\ runs[g] # <<>>
        /\ runs[g][1].stage = "resolved"
        /\ NewerThan(g, lastAgentTimestampByFolder[g]) # {}
        /\ NoTriggerIn([fetched |-> NewerThan(g, lastAgentTimestampByFolder[g])])

\* The cursor of folder g at the moment a run started in this step read it:
\* after the rollback, when the step is the exit of the folder's previous run.
CursorAtStart(g) ==
    IF last'.op = "agentExits" /\ last'.g = g THEN last'.arg.cursor
    ELSE lastAgentTimestampByFolder[g]

\* The runs of folder g dispatched in this step.
NewlyDispatched(g) ==
    {i \in 1..Len(runs'[g]) :
        /\ runs'[g][i].stage = "typing"
        /\ \A k \in 1..Len(runs[g]) : runs[g][k] # runs'[g][i]}

\* C24: a run dispatched for a folder carries in its prompt exactly the stored
\* messages of the folder's chats newer than the folder's cursor at that
\* moment, and the cursor (in memory and saved) becomes the timestamp of the
\* last of them.
C24_ContextAccumulation ==
    [][\A g \in RouterFolders : \A i \in NewlyDispatched(g) :
         /\ runs'[g][i].prev = CursorAtStart(g)
         /\ runs'[g][i].prompt = NewerThan(g, CursorAtStart(g))
         /\ runs'[g][i].prompt # {}
         /\ runs'[g][i].handed = Max(runs'[g][i].prompt)
         /\ lastAgentTimestampByFolder'[g] = Max(runs'[g][i].prompt)
         /\ db'.last_agent_timestamp[g] = Max(runs'[g][i].prompt)]_vars

\* A run of the trigger-required folder is dispatched with a non-trigger
\* message that accumulated before the trigger arrived.
C24_Witness ==
    \E g \in RouterFolders :
        /\ NeedsTrigger(GetFolderGroup(g))
        /\ runs[g] # <<>>
        /\ runs[g][1].stage = "typing"
        /\ \E t, u \in runs[g][1].prompt :
              t < u /\ ~stored[t].trigger /\ stored[u].trigger
        /\ lastAgentTimestampByFolder[g] = runs[g][1].handed

\* The scheduler's part of a snapshot.
SchedOf(snap) ==
    [groups |-> snap.groups, activeCount |-> snap.activeCount,
     waitingGroups |-> snap.waitingGroups, runs |-> snap.runs,
     timers |-> snap.timers]

\* C25: when queue.sendMessage returns true in a pass of the folder loop, the
\* pass sets the folder's cursor to the timestamp of the last piped message
\* and saves it, does not call enqueueMessageCheck and starts no run: groups
\* (active and pending flags), activeCount, the waiting list, the runs in
\* flight and the timers are as the pass found them.
C25_PipeInSuccess ==
    [][last'.op \in PollOps =>
         \A d \in Decisions(last') :
            /\ d.write = "ok" <=> d.kind = "pipe"
            /\ d.kind = "pipe" =>
                 /\ d.sent # {}
                 /\ d.post.cursor[d.folder] = Max(d.sent)
                 /\ d.post.db.last_agent_timestamp[d.folder] = Max(d.sent)
                 /\ d.post.cursor[d.folder] >= d.pre.cursor[d.folder]
                 /\ \A f \in RouterFolders \ {d.folder} :
                       d.post.cursor[f] = d.pre.cursor[f]
                 /\ SchedOf(d.post) = SchedOf(d.pre)]_vars

\* A pass piped messages to the active worker of a folder and moved the
\* cursor forward.
C25_Witness ==
    /\ last.op \in PollOps
    /\ \E d \in Decisions(last) :
          /\ d.kind = "pipe"
          /\ d.pre.groups[d.folder].active
          /\ d.pre.cursor[d.folder] < d.post.cursor[d.folder]
          /\ db.last_agent_timestamp[d.folder] = d.post.cursor[d.folder]

\* C26 as stated: in a pass of the folder loop that calls enqueueMessageCheck
\* (no worker active, or the pipe-in failed), the folder's cursor already
\* stands at the latest pending message timestamp, in memory and saved, when
\* enqueueMessageCheck is called.
C26_CursorBeforeEnqueue ==
    [][last'.op \in PollOps =>
         \A d \in Decisions(last') :
            d.kind = "enqueue" =>
               /\ d.pre.cursor[d.folder] = Max(d.sent)
               /\ d.pre.db.last_agent_timestamp[d.folder] = Max(d.sent)]_vars

\* The run enqueueMessageCheck started in a pass, if it started one that was
\* dispatched.
StartedBy(d) ==
    {i \in 1..Len(d.post.runs[d.folder]) :
        /\ Dispatched(d.post.runs[d.folder][i])
        /\ \A k \in 1..Len(d.pre.runs[d.folder]) :
              d.pre.runs[d.folder][k] # d.post.runs[d.folder][i]}

\* C26 amended: the poll loop calls enqueueMessageCheck with the cursor as it
\* found it. The cursor moves only if that call starts a run at once and the
\* run passes its checks: then, when enqueueMessageCheck returns, the cursor
\* in memory and saved is the latest pending message timestamp, set by
\* processGroupMessages before the worker is spawned. Otherwise (the group is
\* active, or waits at the ceiling, or the run returns early) the cursor is
\* unchanged and the messages stay newer than it.
C26_CursorAdvancedByRun ==
    [][last'.op \in PollOps =>
         \A d \in Decisions(last') :
            d.kind = "enqueue" =>
               IF StartedBy(d) # {}
               THEN /\ d.pre.cursor[d.folder] < Max(d.sent)
                    /\ d.post.cursor[d.folder] = Max(d.sent)
                    /\ d.post.db.last_agent_timestamp[d.folder] = Max(d.sent)
                    /\ \A i \in StartedBy(d) :
                          /\ d.post.runs[d.folder][i].stage = "typing"
                          /\ d.post.runs[d.folder][i].prompt = d.sent
               ELSE /\ d.post.cursor = d.pre.cursor
                    /\ d.post.db = d.pre.db
                    /\ \/ d.post.groups[d.folder].pendingMessages
                       \/ \E i \in 1..Len(d.post.runs[d.folder]) :
                             d.post.runs[d.folder][i].stage = "resolved"]_vars

\* enqueueMessageCheck was called for a folder with pending messages and an
\* unchanged cursor, and the run it started advanced the cursor.
C26_Witness ==
    /\ last.op = "poll"
    /\ \E d \in Decisions(last) :
          /\ d.kind = "enqueue"
          /\ StartedBy(d) # {}
          /\ d.pre.cursor[d.folder] < d.post.cursor[d.folder]

\* enqueueMessageCheck was called while the folder's worker was active (the
\* pipe-in failed): the cursor stays and the check is left pending.
C26_WitnessPending ==
    /\ last.op = "poll"
    /\ \E d \in Decisions(last) :
          /\ d.kind = "enqueue"
          /\ d.pre.groups[d.folder].active
          /\ d.post.groups[d.folder].pendingMessages
          /\ d.post.cursor = d.pre.cursor

\* Every field registerProcess sets is null again.
HandleReset(state) ==
    /\ state.process = NULL
    /\ state.processName = NULL
    /\ state.groupFolder = NULL
    /\ state.activeChatJid = NULL

\* The groups other than g whose run in flight changed in this step.
StartedElsewhere(g) == {h \in AllKeys \ {g} : runs'[h] # runs[h]}

\* C27: when the run of group g settles (resolved true, resolved false or
\* rejected), the handle fields of g are reset and the slot is given back
\* before the next item is chosen, so a run started in the same step finds
\* them null and activeCount counts it on top of the decrement. Unless the
\* scheduler is shutting down, the next item is the oldest pending task of g,
\* else the pending message check of g, else the waiting list is drained
\* from its front until it is empty or the ceiling is reached.
C27_ExitThenDrain ==
    [][\A g \in GroupKeys :
         (last'.op \in Settles /\ last'.g = g /\ Len(runs[g]) = 1) =>
            /\ HandleReset(groups'[g])
            /\ IF shuttingDown
               THEN /\ ~groups'[g].active /\ runs'[g] = <<>>
                    /\ activeCount' = activeCount - 1
                    /\ groups'[g].pendingTasks = groups[g].pendingTasks
                    /\ groups'[g].pendingMessages = groups[g].pendingMessages
                    /\ StartedElsewhere(g) = {}
               ELSE IF groups[g].pendingTasks # <<>>
               THEN /\ groups'[g].active
                    /\ runs'[g] = <<NewRun("task", Head(groups[g].pendingTasks))>>
                    /\ groups'[g].pendingTasks = Tail(groups[g].pendingTasks)
                    /\ groups'[g].pendingMessages = groups[g].pendingMessages
                    /\ activeCount' = activeCount
                    /\ waitingGroups' = waitingGroups
                    /\ StartedElsewhere(g) = {}
               ELSE IF groups[g].pendingMessages
               THEN /\ groups'[g].active
                    /\ runs'[g] = <<NewRun("messages", NULL)>>
                    /\ ~groups'[g].pendingMessages
                    /\ activeCount' = activeCount
                    /\ waitingGroups' = waitingGroups
                    /\ StartedElsewhere(g) = {}
               ELSE /\ ~groups'[g].active /\ runs'[g] = <<>>
                    /\ IsSuffix(waitingGroups', waitingGroups)
                    /\ waitingGroups' = <<>>
                          \/ activeCount' = MAX_CONCURRENT_AGENTS
                    /\ activeCount' =
                          activeCount - 1 + Cardinality(StartedElsewhere(g))
                    /\ \A h \in StartedElsewhere(g) :
                          Includes(waitingGroups, h) /\ Len(runs'[h]) = 1]_vars

\* The registered worker of a group threw while a task and a message check
\* were pending: the task is running, the check is still owed, the handle
\* fields are null.
C27_Witness ==
    /\ last.op = "messageRunSettles"
    /\ last.ret = "throw"
    /\ last.arg = "proc"
    /\ groups[last.g].active
    /\ runs[last.g][1].kind = "task"
    /\ groups[last.g].pendingMessages
    /\ HandleReset(groups[last.g])

\* A run ended with nothing pending for its group and the slot went to the
\* group at the front of the waiting list.
C27_WitnessWaiting ==
    /\ last.op \in Settles
    /\ ~groups[last.g].active
    /\ activeCount = MAX_CONCURRENT_AGENTS
    /\ \E h \in GroupKeys \ {last.g} : groups[h].active

\* C28: no group key occurs twice in the waiting list, whatever calls of
\* enqueueMessageCheck and enqueueTask arrive for it at the ceiling.
C28_WaitingNoDuplicates ==
    \A g \in AllKeys : Count(waitingGroups, g) <= 1

\* A group waits for a slot with both a message check and a task pending:
\* calls of both kinds reached the ceiling branch for it, the last one just now.
C28_Witness ==
    /\ last.op \in {"enqueueMessageCheck", "enqueueTask"}
    /\ activeCount = MAX_CONCURRENT_AGENTS
    /\ ~groups[last.g].active
    /\ groups[last.g].pendingMessages
    /\ groups[last.g].pendingTasks # <<>>
    /\ Count(waitingGroups, last.g) = 1

\* The scheduler state runForGroup leaves when processMessagesFn resolves
\* false for the run in flight of group g.
AfterFailure(g) == RunForGroupSettle(Q, g, 1, "failure")

\* C29: a message-check run whose processMessagesFn rejects leaves the
\* scheduler exactly as one that resolves false: retryCount is incremented and
\* one backoff timer is added, or on the 6th consecutive failure retryCount is
\* reset and none is added; the slot is given back and the group is idle,
\* unless a check queued meanwhile is started by the drain.
C29_ThrowLikeFailure ==
    [][\A g \in AllKeys :
         (last'.op = "messageRunSettles" /\ last'.g = g /\ last'.ret = "throw") =>
            /\ groups' = AfterFailure(g).groups
            /\ activeCount' = AfterFailure(g).activeCount
            /\ waitingGroups' = AfterFailure(g).waitingGroups
            /\ runs' = AfterFailure(g).runs
            /\ timers' = AfterFailure(g).timers
            /\ IF groups[g].retryCount < MAX_RETRIES
               THEN /\ groups'[g].retryCount = groups[g].retryCount + 1
                    /\ timers'[g] =
                          Append(timers[g], BackoffDelay[groups'[g].retryCount])
               ELSE /\ groups'[g].retryCount = 0
                    /\ timers'[g] = timers[g]
            /\ IF groups[g].pendingMessages /\ ~shuttingDown
               THEN groups'[g].active /\ activeCount' = activeCount
               ELSE ~groups'[g].active /\ activeCount' = activeCount - 1
                    /\ runs'[g] = <<>>]_vars

\* A run threw, its group is idle again, a retry is scheduled.
C29_Witness ==
    /\ last.op = "messageRunSettles"
    /\ last.ret = "throw"
    /\ ~groups[last.g].active
    /\ groups[last.g].retryCount = 2
    /\ timers[last.g] # <<>>
    /\ activeCount = 0

\* The 6th consecutive failure was a throw: the group is dropped.
C29_WitnessDrop ==
    /\ last.op = "messageRunSettles"
    /\ last.ret = "throw"
    /\ streak[last.g] = MAX_RETRIES + 1
    /\ groups[last.g].retryCount = 0
    /\ ~groups[last.g].active

\* C30: when the filesystem write inside sendMessage fails in a pass of the
\* folder loop, sendMessage returns false and the pass calls
\* enqueueMessageCheck: the folder's worker is active, so the only change to
\* the scheduler is the pendingMessages flag of the folder; no cursor moves
\* (in memory or saved), and the messages the pass meant to pipe are the ones
\* still newer than the cursor, left for the run that the pending check
\* starts.
C30_WriteFailureFallsBack ==
    [][last'.op \in PollOps =>
         \A d \in Decisions(last') :
            d.write = "failed" =>
               /\ d.kind = "enqueue"
               /\ d.pre.groups[d.folder].active
               /\ d.post.groups =
                     [d.pre.groups EXCEPT ![d.folder].pendingMessages = TRUE]
               /\ d.post.activeCount = d.pre.activeCount
               /\ d.post.waitingGroups = d.pre.waitingGroups
               /\ d.post.runs = d.pre.runs
               /\ d.post.timers = d.pre.timers
               /\ d.post.cursor = d.pre.cursor
               /\ d.post.db = d.pre.db
               /\ \/ NewerThan(d.folder, d.post.cursor[d.folder]) = d.sent
                  \/ NewerThan(d.folder, d.post.cursor[d.folder]) = {}]_vars

\* A mailbox write failed for messages newer than the cursor: the check is
\* pending behind the active worker and the messages are still to be handed.
C30_Witness ==
    /\ last.op \in PollOps
    /\ \E d \in Decisions(last) :
          /\ d.write = "failed"
          /\ groups[d.folder].active
          /\ groups[d.folder].pendingMessages
          /\ d.sent # {}
          /\ NewerThan(d.folder, lastAgentTimestampByFolder[d.folder]) = d.sent
          /\ HandedTo(d.folder) \cap d.sent = {}

\* The scheduling fields of one group.
SchedFields(state) ==
    <<state.active, state.pendingMessages, state.pendingTasks, state.retryCount>>

MailboxOps == {"sendMessage", "closeStdin"}

\* C31: a call of sendMessage or closeStdin, whatever its arguments and its
\* result, leaves every group's active, pendingMessages, pendingTasks and
\* retryCount, the waiting list and activeCount as they were, and closeStdin
\* writes no close sentinel for a group without an active run.
C31_MailboxCallsKeepScheduling ==
    [][last'.op \in MailboxOps =>
         /\ \A g \in AllKeys : SchedFields(groups'[g]) = SchedFields(groups[g])
         /\ waitingGroups' = waitingGroups
         /\ activeCount' = activeCount
         /\ runs' = runs
         /\ timers' = timers
         /\ (last'.op = "closeStdin" /\ ~groups[last'.g].active)
                => last'.ret = FALSE]_vars

\* C31 witness: a follow-up was delivered to a running group that has a
\* message check and a task pending, and they are still pending.
C31_Witness ==
    /\ last.op = "sendMessage"
    /\ last.ret = TRUE
    /\ groups[last.g].active
    /\ groups[last.g].pendingMessages
    /\ Len(groups[last.g].pendingTasks) > 0

\* C31 second case: closeStdin for a group without a run wrote nothing.
C31_WitnessNoRun ==
    /\ last.op = "closeStdin"
    /\ ~groups[last.g].active
    /\ last.ret = FALSE

\* C32: between two handlers the persisted watermark and the persisted cursor
\* map equal the ones in memory: every assignment to lastTimestamp or to a
\* group's cursor (poll cycle, pipe-in, dispatch, rollback) is followed by
\* saveState within the same handler.
C32_PersistedEqualsMemory ==
    /\ db.last_timestamp = lastTimestamp
    /\ db.last_agent_timestamp = lastAgentTimestampByFolder

\* C32 witness: a run that had advanced the cursor failed without output; the
\* cursor is rolled back in memory and in the store, below the watermark.
C32_Witness ==
    /\ last.op = "agentExits"
    /\ last.ret = FALSE
    /\ last.arg.prev < last.arg.handed
    /\ lastAgentTimestampByFolder[last.g] = last.arg.prev
    /\ db.last_agent_timestamp[last.g] = last.arg.prev
    /\ lastTimestamp > last.arg.prev
    /\ db.last_timestamp = lastTimestamp

\* C33: when the persisted cursor row fails to parse, loadState completes (main
\* goes on: the callback is still to be wired, which is all recovery waits for), every group's cursor in memory is the empty
\* timestamp, the watermark in memory is the persisted one, and the store is
\* not written.
C33_CorruptCursorReset ==
    [][(last'.op = "loadState" /\ db.corrupt) =>
          /\ lastAgentTimestampByFolder' = [g \in AllKeys |-> 0]
          /\ lastTimestamp' = db.last_timestamp
          /\ db' = db
          /\ processMessagesFn' = NULL]_vars

\* C33 witness: a process was started over a damaged cursor row that had held
\* an advanced cursor; the cursors are empty and the watermark is kept.
C33_Witness ==
    /\ last.op = "loadState"
    /\ last.arg.db.corrupt
    /\ \E g \in RouterFolders : last.arg.db.last_agent_timestamp[g] > 0
    /\ lastAgentTimestampByFolder = [g \in AllKeys |-> 0]
    /\ lastTimestamp = last.arg.db.last_timestamp
    /\ lastTimestamp > 0

\* C34: a message-check run that ends in error after an output was delivered
\* to the user returns true to runForGroup: the retryCount of its group is 0
\* afterwards, no retry timer is added for it, and it does not count as a
\* failed run.
C34_FailureAfterOutputIsSuccess ==
    [][\A g \in RouterFolders :
         (FailedExit(g) /\ last'.arg.sent) =>
            /\ last'.ret = TRUE
            /\ groups'[g].retryCount = 0
            /\ timers' = timers
            /\ streak'[g] = 0
            /\ failures' = failures
      ]_vars

\* C34 witness: the retried run of a group delivered an output and then ended
\* in error; the retryCount left by the earlier failure is back at 0 and no
\* timer is pending.
C34_Witness ==
    /\ last.op = "agentExits"
    /\ last.arg.failed /\ last.arg.sent
    /\ last.ret = TRUE
    /\ last.arg.retryCount > 0
    /\ groups[last.g].retryCount = 0
    /\ timers[last.g] = <<>>

\* Task t is running for group g.
RunningTask(g, t) ==
    \E i \in 1..Len(runs[g]) : runs[g][i].kind = "task" /\ runs[g][i].task = t

\* C35: the dedup of enqueueTask looks at the pending queue only. A call for
\* the id of the task that is running for the group, with no pending entry of
\* that id, appends the task to the group's queue; when the running one
\* completes with that entry at the head of the queue, the same id is started
\* again.
C35_DedupPendingOnly ==
    [][/\ (/\ last'.op = "enqueueTask"
           /\ ~shuttingDown
           /\ RunningTask(last'.g, last'.arg)
           /\ ~Includes(groups[last'.g].pendingTasks, last'.arg))
          => /\ groups'[last'.g].pendingTasks =
                    Append(groups[last'.g].pendingTasks, last'.arg)
             /\ runs' = runs
       /\ (/\ last'.op = "taskRunSettles"
           /\ ~shuttingDown
           /\ Len(groups[last'.g].pendingTasks) > 0
           /\ Head(groups[last'.g].pendingTasks) = last'.arg)
          => /\ runs'[last'.g] = <<NewRun("task", last'.arg)>>
             /\ groups'[last'.g].active
             /\ groups'[last'.g].pendingTasks = Tail(groups[last'.g].pendingTasks)
      ]_vars

\* C35 witness: task t1 completed and t1, queued while it ran, is running again.
C35_Witness ==
    /\ last.op = "taskRunSettles"
    /\ last.arg = "t1"
    /\ RunningTask(last.g, "t1")
    /\ groups[last.g].pendingTasks = <<>>

\* C36: when every run terminates and shutdown is never requested, every group
\* that is on the waiting list eventually has a run started for it, whatever
\* is enqueued for the groups that are active.
C36_WaitingEventuallyRuns ==
    \A g \in AllKeys : Includes(waitingGroups, g) ~> (Len(runs[g]) > 0)

\* C37: backoff is respected. When a message-check run of a group fails with
\* retries remaining, no message-check run of that group starts until the
\* timer armed for the failure fires or enqueueMessageCheck is called from
\* outside afterwards; in particular the completion of the failing run starts
\* none itself, whatever was requested while it ran.
C37_BackoffRespected ==
    [][(/\ last'.op = "messageRunSettles"
        /\ last'.ret \in {"failure", "throw"}
        /\ groups[last'.g].retryCount < MAX_RETRIES)
       => /\ Len(timers'[last'.g]) = Len(timers[last'.g]) + 1
          /\ \A i \in 1..Len(runs'[last'.g]) :
                 runs'[last'.g][i].kind # "messages"]_vars

\* Every group on the waiting list is inactive and has pending work.
WaitingHavePendingWork ==
    \A k \in 1..Len(waitingGroups) :
        /\ ~groups[waitingGroups[k]].active
        /\ HasPending(waitingGroups[k])

\* C38: while shutdown has not been requested, every group on the waiting list
\* is inactive and has pending work (pendingMessages set or a task queued), so
\* every group that leaves the waiting list leaves it with a run started for it.
C38_WaitingHavePendingWork ==
    [][/\ ~shuttingDown' => WaitingHavePendingWork'
       /\ \A g \in AllKeys :
             (Includes(waitingGroups, g) /\ ~Includes(waitingGroups', g))
                => /\ Len(runs'[g]) = Len(runs[g]) + 1
                   /\ groups'[g].active]_vars

\* C38 witness: a group whose run failed waits for a slot after its retry
\* timer fired, with a message check and a task pending.
C38_Witness ==
    /\ ~shuttingDown
    /\ Len(waitingGroups) > 0
    /\ streak[Head(waitingGroups)] > 0
    /\ groups[Head(waitingGroups)].pendingMessages
    /\ Len(groups[Head(waitingGroups)].pendingTasks) > 0
    /\ ~groups[Head(waitingGroups)].active

\* C39: work conservation. While shutdown has not been requested, between two
\* handlers the waiting list is non-empty only when activeCount is at
\* MAX_CONCURRENT_AGENTS, and every inactive group with pending work is on the
\* waiting list: no accepted work sits on an idle group while a slot is free.
C39_WorkConservation ==
    ~shuttingDown =>
        /\ Len(waitingGroups) > 0 => activeCount = MAX_CONCURRENT_AGENTS
        /\ \A g \in AllKeys :
              (~groups[g].active /\ HasPending(g)) => Includes(waitingGroups, g)

\* C39 witness: a run returned with nothing queued for its group and the
\* waiting group took the slot; the list is empty and the slot is in use.
C39_Witness ==
    /\ ~shuttingDown
    /\ last.op \in Settles
    /\ ~groups[last.g].active
    /\ waitingGroups = <<>>
    /\ activeCount = MAX_CONCURRENT_AGENTS
    /\ \E g \in AllKeys \ {last.g} : groups[g].active /\ Len(runs[g]) = 1

\* C40: activeCount equals the number of groups whose active flag is set, and
\* is never negative, after any sequence of run starts and completions
\* (success, failure, exception), completions after shutdown included.
C40_ActiveCountMatchesFlags ==
    /\ activeCount = Cardinality(ActiveGroups)
    /\ activeCount >= 0

\* C40 witness: after shutdown a message-check run threw; its group is
\* inactive with work still queued, and the counter is back at 0.
C40_Witness ==
    /\ shuttingDown
    /\ last.op = "messageRunSettles"
    /\ last.ret = "throw"
    /\ HasPending(last.g)
    /\ ActiveGroups = {}
    /\ activeCount = 0

=============================================================================
